---------------------------- MODULE Spec2Model ----------------------------
(***************************************************************************)
(* Model of the analytics and team-selection engine of utils/logic.py and  *)
(* of the views of app.py that call it on the process-wide table DF.       *)
(*                                                                         *)
(* A pandas DataFrame is a record [cols, rows]: cols is the sequence of    *)
(* column labels, rows the sequence of rows in positional order, each row  *)
(* [idx |-> index label, val |-> function from the column labels to        *)
(* cells].  A cell is a number, a text or the missing value NaN.  A text   *)
(* is the sequence of its characters, so that lower(), substring search    *)
(* and lexicographic order are computed on the characters.                 *)
(***************************************************************************)
EXTENDS Integers, Sequences, FiniteSets, TLC

VARIABLES DF, pc, op, args, result, session, remember_token, last_auth

vars == <<DF, pc, op, args, result, session, remember_token, last_auth>>

---------------------------------------------------------------------------
(* Characters and Python str operations.                                   *)

\* The characters that occur in the model, in code point order.
Alphabet ==
  << " ", ",", "-", "0", "1", "2", "3", "4", "5", "6", "7", "8", "9", "<",
     "A", "B", "C", "D", "E", "F", "G", "H", "I", "J", "K", "L", "M",
     "N", "O", "P", "Q", "R", "S", "T", "U", "V", "W", "X", "Y", "Z", "_",
     "a", "b", "c", "d", "e", "f", "g", "h", "i", "j", "k", "l", "m",
     "n", "o", "p", "q", "r", "s", "t", "u", "v", "w", "x", "y", "z" >>

\* The elements of sequence q.
SeqToSet(q) == {q[i] : i \in 1..Len(q)}

Chars == SeqToSet(Alphabet)

\* The position of each element of a sequence without repetitions.
IndexIn(q) == [c \in SeqToSet(q) |-> CHOOSE i \in 1..Len(q) : q[i] = c]

\* Position of a character in code point order.
Ord == IndexIn(Alphabet)

\* The characters from lo to hi in code point order.
CharRange(ord, lo, hi) == {c \in DOMAIN ord : ord[lo] <= ord[c] /\ ord[c] <= ord[hi]}

Upper == CharRange(Ord, "A", "Z")

Digits == CharRange(Ord, "0", "9")

\* str.lower() on one character.
LowerChar ==
  LET InCase(ord) ==
        [c \in DOMAIN ord |->
           IF ord["A"] <= ord[c] /\ ord[c] <= ord["Z"]
           THEN CHOOSE x \in DOMAIN ord : ord[x] = ord[c] + (ord["a"] - ord["A"])
           ELSE c]
  IN  InCase(Ord)

\* str.lower()
Lower(s) == [i \in 1..Len(s) |-> LowerChar[s[i]]]

SetMin(S) == CHOOSE x \in S : \A y \in S : x <= y

SetMax(S) == CHOOSE x \in S : \A y \in S : x >= y

\* str.find(sub): the lowest 0-based offset at which sub occurs in s, else -1.
Find(s, sub) ==
  LET hits == {i \in 1..(Len(s) - Len(sub) + 1) : SubSeq(s, i, i + Len(sub) - 1) = sub}
  IN  IF hits = {} THEN -1 ELSE SetMin(hits) - 1

\* Python's "sub in s".
Contains(s, sub) == Find(s, sub) # -1

\* Series.str.contains(pat, case=False) for a literal pattern.
IContains(s, pat) == Contains(Lower(s), Lower(pat))

\* Python's order on str: lexicographic by code point.
StrLess(a, b) ==
  LET n == IF Len(a) < Len(b) THEN Len(a) ELSE Len(b)
      diff == {i \in 1..n : a[i] # b[i]}
  IN  IF diff = {} THEN Len(a) < Len(b)
      ELSE LET Less(ord, i) == ord[a[i]] < ord[b[i]] IN Less(Ord, SetMin(diff))

DigitVal(c) == Ord[c] - Ord["0"]

\* int() of a string of digits.
RECURSIVE ToInt(_)
ToInt(s) == IF s = <<>> THEN 0 ELSE 10 * ToInt(SubSeq(s, 1, Len(s) - 1)) + DigitVal(s[Len(s)])

\* The longest run of digits of s that starts at position i, at most k long.
RECURSIVE DigitRun(_, _, _)
DigitRun(s, i, k) ==
  IF k = 0 \/ i > Len(s) \/ s[i] \notin Digits THEN <<>>
  ELSE <<s[i]>> \o DigitRun(s, i + 1, k - 1)

\* re.search(r"(\d{lo,hi})", s): the first match, greedy, or <<>> when none.
SearchDigits(s, lo, hi) ==
  LET starts == {i \in 1..Len(s) : Len(DigitRun(s, i, hi)) >= lo}
  IN  IF starts = {} THEN <<>> ELSE DigitRun(s, SetMin(starts), hi)

---------------------------------------------------------------------------
(* Cells.                                                                  *)

Num(n) == [k |-> "num", n |-> n, s |-> <<>>]

Str(s) == [k |-> "str", n |-> 0, s |-> s]

NaN == [k |-> "nan", n |-> 0, s |-> <<>>]

IsNaN(c) == c.k = "nan"

\* Series.fillna(v)
FillNa(c, v) == IF IsNaN(c) THEN v ELSE c

---------------------------------------------------------------------------
(* Texts of the data set and of the code's literals.                       *)

T_Pilot == <<"P", "i", "l", "o", "t">>
T_CoPilot == <<"C", "o", "-", "P", "i", "l", "o", "t">>
T_Engineer == <<"E", "n", "g", "i", "n", "e", "e", "r">>
T_Major == <<"M", "a", "j", "o", "r">>
T_Officer == <<"O", "f", "f", "i", "c", "e", "r">>
T_Captain == <<"C", "a", "p", "t", "a", "i", "n">>
T_Colonel == <<"C", "o", "l", "o", "n", "e", "l">>
T_Cadet == <<"C", "a", "d", "e", "t">>
T_A1 == <<"A", "1">>
T_A2 == <<"A", "2">>
T_B1 == <<"B", "1">>
T_B2 == <<"B", "2">>
T_C1 == <<"C", "1">>
T_C2 == <<"C", "2">>
T_X9 == <<"X", "9">>
T_High == <<"H", "i", "g", "h">>
T_Medium == <<"M", "e", "d", "i", "u", "m">>
T_Low == <<"L", "o", "w">>
T_Yes == <<"Y", "e", "s">>
T_No == <<"N", "o">>
T_Excellent == <<"E", "x", "c", "e", "l", "l", "e", "n", "t">>
T_Good == <<"G", "o", "o", "d">>
T_Average == <<"A", "v", "e", "r", "a", "g", "e">>
T_BelowAverage == <<"B", "e", "l", "o", "w", " ", "A", "v", "e", "r", "a", "g", "e">>

---------------------------------------------------------------------------
(* Data frames.                                                            *)

HasCol(f, c) == c \in SeqToSet(f.cols)

\* df[c] = vals : the column is replaced in place when it exists, else
\* appended as the last column.
SetCol(f, c, vals) ==
  [cols |-> IF HasCol(f, c) THEN f.cols ELSE Append(f.cols, c),
   rows |-> [i \in 1..Len(f.rows) |->
               LET r == f.rows[i]
               IN  [idx |-> r.idx,
                    val |-> [x \in DOMAIN r.val \cup {c} |->
                               IF x = c THEN vals[i] ELSE r.val[x]]]]]

\* df[[c1, c2, ...]]
Project(f, cs) ==
  [cols |-> cs,
   rows |-> [i \in 1..Len(f.rows) |->
               LET r == f.rows[i]
               IN  [idx |-> r.idx, val |-> [x \in SeqToSet(cs) |-> r.val[x]]]]]

\* df.head(n)
HeadN(f, n) ==
  [f EXCEPT !.rows = SubSeq(f.rows, 1,
     IF n >= 0 THEN (IF n < Len(f.rows) THEN n ELSE Len(f.rows))
     ELSE (IF Len(f.rows) + n > 0 THEN Len(f.rows) + n ELSE 0))]

\* The order of two non-missing cells of one column.
CellLess(a, b) == IF a.k = "num" THEN a.n < b.n ELSE StrLess(a.s, b.s)

\* Whether cell a sorts strictly before cell b; missing values sort last
\* whatever the direction (na_position='last').
CellBefore(a, b, asc) ==
  IF IsNaN(a) THEN FALSE
  ELSE IF IsNaN(b) THEN TRUE
  ELSE CellLess(IF asc THEN a ELSE b, IF asc THEN b ELSE a)

\* keys is a sequence of [col, asc].
RECURSIVE RowBefore(_, _, _)
RowBefore(r1, r2, keys) ==
  IF keys = <<>> THEN FALSE
  ELSE LET a == r1.val[Head(keys).col]
           b == r2.val[Head(keys).col]
       IN  IF CellBefore(a, b, Head(keys).asc) THEN TRUE
           ELSE IF CellBefore(b, a, Head(keys).asc) THEN FALSE
           ELSE RowBefore(r1, r2, Tail(keys))

\* Insert r behind every row that does not sort strictly after it.
InsertRow(sorted, r, keys) ==
  LET PutAt(at) == SubSeq(sorted, 1, at - 1) \o <<r>> \o SubSeq(sorted, at, Len(sorted))
      FirstOf(later) == IF later = {} THEN Len(sorted) + 1 ELSE SetMin(later)
  IN  PutAt(FirstOf({i \in 1..Len(sorted) : RowBefore(r, sorted[i], keys)}))

RECURSIVE SortRows(_, _)
SortRows(rows, keys) ==
  IF rows = <<>> THEN <<>>
  ELSE InsertRow(SortRows(SubSeq(rows, 1, Len(rows) - 1), keys), rows[Len(rows)], keys)

\* df.sort_values(by, ascending): rows that compare equal keep their order.
SortValues(f, keys) == [f EXCEPT !.rows = SortRows(f.rows, keys)]

\* Series.map(dict): the value of the key, NaN for a key the dict lacks.
MapCell(m, c) ==
  IF c.k = "str" /\ \E p \in m : p[1] = c.s
  THEN Num((CHOOSE p \in m : p[1] = c.s)[2])
  ELSE NaN

IdxSet(f) == {f.rows[i].idx : i \in 1..Len(f.rows)}

---------------------------------------------------------------------------
(* The personnel tables the model draws DF from.                           *)

\* Rows a table has at most, in the report, team and what-if specifications.
MaxRows == 3

MaxTeamRows == 3

MaxQueryRows == 2

\* BMI is kept in tenths (18.5 is 185).
Pool ==
  << [skill |-> Str(T_Pilot), rank |-> Str(T_Major), yos |-> Num(22), perf |-> 5,
      train |-> Num(90), med |-> Str(T_A1), bmi |-> Num(220), lead |-> Str(T_High),
      ready |-> Str(T_High), attr |-> Str(T_Low), miss |-> Num(10)],
     [skill |-> Str(T_Pilot), rank |-> Str(T_Cadet), yos |-> Num(3), perf |-> 2,
      train |-> Num(45), med |-> Str(T_C1), bmi |-> Num(310), lead |-> Str(T_Low),
      ready |-> Str(T_Medium), attr |-> Str(T_High), miss |-> Num(2)],
     [skill |-> Str(T_Engineer), rank |-> Str(T_Officer), yos |-> Num(16), perf |-> 4,
      train |-> NaN, med |-> Str(T_B1), bmi |-> Num(240), lead |-> Str(T_Yes),
      ready |-> Str(T_Low), attr |-> Str(T_Medium), miss |-> Num(0)],
     [skill |-> Str(T_Engineer), rank |-> Str(T_Cadet), yos |-> Num(25), perf |-> 1,
      train |-> Num(30), med |-> Str(T_X9), bmi |-> Num(170), lead |-> NaN,
      ready |-> NaN, attr |-> NaN, miss |-> Num(5)],
     [skill |-> Str(T_CoPilot), rank |-> Str(T_Captain), yos |-> Num(15), perf |-> 3,
      train |-> Num(60), med |-> Str(T_C2), bmi |-> Num(250), lead |-> Str(T_No),
      ready |-> Str(T_High), attr |-> Str(T_Low), miss |-> Num(10)] >>

BaseCols ==
  << "Personnel_ID", "Name", "Rank", "Primary_Skill", "Years_of_Service",
     "Performance_Rating", "Training_Score", "Training_Course", "Medical_Category",
     "BMI", "Last_Medical_Checkup", "Leadership_Potential", "Readiness_Level",
     "Missions_Completed" >>

\* The categorical form of a performance rating.
PerfLabel(n) ==
  IF n >= 5 THEN T_Excellent ELSE IF n = 4 THEN T_Good
  ELSE IF n = 3 THEN T_Average ELSE T_BelowAverage

\* The row of person i (1-based position in the file) made from pool row p.
Person(i, p, cols, perfText) ==
  [idx |-> i - 1,
   val |-> [c \in SeqToSet(cols) |->
     CASE c = "Personnel_ID" -> Num(i)
       [] c = "Name" -> Str(<<"N">>)
       [] c = "Rank" -> p.rank
       [] c = "Primary_Skill" -> p.skill
       [] c = "Years_of_Service" -> p.yos
       [] c = "Performance_Rating" -> IF perfText THEN Str(PerfLabel(p.perf)) ELSE Num(p.perf)
       [] c = "Training_Score" -> p.train
       [] c = "Training_Course" -> Str(<<"T">>)
       [] c = "Medical_Category" -> p.med
       [] c = "BMI" -> p.bmi
       [] c = "Last_Medical_Checkup" -> Num(i)
       [] c = "Leadership_Potential" -> p.lead
       [] c = "Readiness_Level" -> p.ready
       [] c = "Missions_Completed" -> p.miss
       [] c = "Attrition_Risk" -> p.attr]]

\* The table read by load_df from a file whose rows are the pool rows
\* picks[1], picks[2], ...: a RangeIndex 0..n-1, with or without the
\* Attrition_Risk column, ratings numeric (1-5) or categorical.
MkTable(picks, hasAttr, perfText) ==
  LET cols == IF hasAttr THEN Append(BaseCols, "Attrition_Risk") ELSE BaseCols
  IN  [cols |-> cols,
       rows |-> [i \in 1..Len(picks) |-> Person(i, Pool[picks[i]], cols, perfText)]]

\* The table read from a file whose rows are persons[1], persons[2], ...
MkTableOf(persons, perfText) ==
  [cols |-> Append(BaseCols, "Attrition_Risk"),
   rows |-> [i \in 1..Len(persons) |->
               Person(i, persons[i], Append(BaseCols, "Attrition_Risk"), perfText)]]

\* The tables of at most n rows; attrs: with the Attrition_Risk column or
\* not; texts: ratings categorical or not.
Tables(n, attrs, texts) ==
  {MkTable(picks, a, t) :
     picks \in UNION {[1..k -> 1..Len(Pool)] : k \in 0..n}, a \in attrs, t \in texts}

---------------------------------------------------------------------------
(* utils/logic.py: the lookup tables and the derived columns.              *)

MEDICAL_SCORE ==
  { <<T_A1, 100>>, <<T_A2, 95>>, <<T_B1, 88>>, <<T_B2, 82>>, <<T_C1, 75>>, <<T_C2, 68>> }

READINESS_SCORE == { <<T_High, 3>>, <<T_Medium, 2>>, <<T_Low, 1>> }

LEADERSHIP_MAP ==
  { <<T_High, 3>>, <<T_Medium, 2>>, <<T_Low, 1>>, <<T_Yes, 3>>, <<T_No, 1>> }

ATTRITION_RISK_MAP == { <<T_High, 3>>, <<T_Medium, 2>>, <<T_Low, 1>> }

\* df[c]
ColOf(f, c) == [i \in 1..Len(f.rows) |-> f.rows[i].val[c]]

\* df[src].map(m) without the fillna.
MappedCol_nofill(f, src, m, dflt) ==
  [i \in 1..Len(f.rows) |-> MapCell(m, f.rows[i].val[src])]

\* df[src].map(m).fillna(dflt)
MappedCol(f, src, m, dflt) ==
  [i \in 1..Len(f.rows) |-> FillNa(MapCell(m, f.rows[i].val[src]), Num(dflt))]

\* df[score] = df[src].map(m).fillna(dflt)
WithScore(d, score, src, m, dflt) == SetCol(d, score, MappedCol(d, src, m, dflt))

\* Lines 25-28: the attrition score, 2 throughout without Attrition_Risk.
WithAttritionScore(d) ==
  IF HasCol(d, "Attrition_Risk")
  THEN WithScore(d, "Attrition_Score", "Attrition_Risk", ATTRITION_RISK_MAP, 2)
  ELSE SetCol(d, "Attrition_Score", [i \in 1..Len(d.rows) |-> Num(2)])

\* The frame add_derived_columns builds from df.
Derived(df) ==
  WithAttritionScore(
    WithScore(
      WithScore(
        WithScore(df, "Medical_Score", "Medical_Category", MEDICAL_SCORE, 60),
        "Leadership_Score", "Leadership_Potential", LEADERSHIP_MAP, 1),
      "Readiness_Score", "Readiness_Level", READINESS_SCORE, 1))

\* add_derived_columns without its first statement, df = df.copy(): the
\* columns are assigned on the caller's frame.
add_derived_columns_inplace(df) ==
  LET Both(d) == [df |-> d, out |-> d] IN Both(Derived(df))

\* add_derived_columns(df): out is the frame returned, df the caller's
\* frame as the call leaves it.  The columns are assigned on a copy.
add_derived_columns(df) == [df |-> df, out |-> Derived(df)]

---------------------------------------------------------------------------
(* utils/logic.py: the report generators.                                  *)

\* df[mask]: the rows at the positions of keep, in order, index kept.
RECURSIVE RowsAt(_, _, _)
RowsAt(rows, keep, i) ==
  IF i > Len(rows) THEN <<>>
  ELSE (IF i \in keep THEN <<rows[i]>> ELSE <<>>) \o RowsAt(rows, keep, i + 1)

Mask(f, keep) == [f EXCEPT !.rows = RowsAt(f.rows, keep, 1)]

\* DataFrame.to_dict(orient="records")
Records(f) == [i \in 1..Len(f.rows) |-> f.rows[i].val]

NoFrame == [cols |-> <<>>, rows |-> <<>>]

B2I(b) == IF b THEN 1 ELSE 0

\* The number of heuristic conditions row v matches (lines 36-40).
HeuristicScore(v) ==
  B2I(FillNa(v["Years_of_Service"], Num(0)).n > 20)
  + B2I(FillNa(v["Performance_Rating"], Num(3)).n <= 2)
  + B2I(FillNa(v["Training_Score"], Num(60)).n < 50)

\* np.where(score >= 2, "High", np.where(score == 1, "Medium", "Low"))
HeuristicTier(score) ==
  IF score >= 2 THEN T_High ELSE IF score = 1 THEN T_Medium ELSE T_Low

AttritionKeys ==
  << [col |-> "Attrition_Score", asc |-> FALSE], [col |-> "Years_of_Service", asc |-> TRUE] >>

HeuristicKeys ==
  << [col |-> "Heuristic_Attrition", asc |-> FALSE], [col |-> "Years_of_Service", asc |-> TRUE] >>

\* who_is_going_to_leave(df, top_n).  raised: the comparison
\* Performance_Rating <= 2 of line 38 raises TypeError on a text rating.
who_is_going_to_leave(df, top_n) ==
  LET a == add_derived_columns(df)
      d == a.out
  IN  IF HasCol(d, "Attrition_Risk")
      THEN [df |-> a.df, raised |-> FALSE,
            out |-> HeadN(Project(SortValues(d, AttritionKeys),
                      << "Personnel_ID", "Name", "Rank", "Years_of_Service",
                         "Attrition_Risk", "Performance_Rating" >>), top_n)]
      ELSE IF \E i \in 1..Len(d.rows) : d.rows[i].val["Performance_Rating"].k = "str"
      THEN [df |-> a.df, raised |-> TRUE, out |-> NoFrame]
      ELSE LET h == SetCol(d, "Heuristic_Attrition",
                      [i \in 1..Len(d.rows) |->
                         Str(HeuristicTier(HeuristicScore(d.rows[i].val)))])
           IN  [df |-> a.df, raised |-> FALSE,
                out |-> HeadN(Project(SortValues(h, HeuristicKeys),
                          << "Personnel_ID", "Name", "Rank", "Years_of_Service",
                             "Heuristic_Attrition", "Performance_Rating" >>), top_n)]

\* medical_scores(df)
medical_scores(df) ==
  LET a == add_derived_columns(df)
  IN  [df |-> a.df, raised |-> FALSE,
       out |-> Project(a.out, << "Personnel_ID", "Name", "Rank", "Medical_Category",
                                 "Medical_Score", "BMI", "Last_Medical_Checkup" >>)]

\* The filter with the missing score left missing: NaN < thresh is False.
NeedsTraining_nofill(v, thresh) ==
  ~IsNaN(v["Training_Score"]) /\ v["Training_Score"].n < thresh

\* The rows who_needs_training keeps: Training_Score.fillna(0) < thresh.
NeedsTraining(v, thresh) == FillNa(v["Training_Score"], Num(0)).n < thresh

\* who_needs_training(df, thresh)
who_needs_training(df, thresh) ==
  LET a == add_derived_columns(df)
      d == a.out
      need == Mask(d, {i \in 1..Len(d.rows) : NeedsTraining(d.rows[i].val, thresh)})
  IN  [df |-> a.df, raised |-> FALSE,
       out |-> SortValues(Project(need, << "Personnel_ID", "Name", "Rank", "Training_Course",
                                           "Training_Score", "Performance_Rating" >>),
                          << [col |-> "Training_Score", asc |-> TRUE] >>)]

\* The labels of cs that are columns of f, in the order of cs.
Present(f, cs) == SelectSeq(cs, LAMBDA c : HasCol(f, c))

\* leadership_list(df)
leadership_list(df) ==
  LET a == add_derived_columns(df)
      d == a.out
      cols == Present(d, << "Personnel_ID", "Name", "Rank", "Primary_Skill",
                            "Leadership_Potential", "Performance_Rating",
                            "Missions_Completed" >>)
  IN  [df |-> a.df, raised |-> FALSE,
       out |-> Project(SortValues(d, << [col |-> "Leadership_Score", asc |-> FALSE],
                                        [col |-> "Performance_Rating", asc |-> FALSE] >>),
                       cols)]

\* The distinct non-missing texts of column c, in order of first appearance
\* (Series.dropna().unique()).
RECURSIVE UniqueTexts(_, _, _)
UniqueTexts(f, c, i) ==
  IF i = 0 THEN <<>>
  ELSE LET before == UniqueTexts(f, c, i - 1)
           x == f.rows[i].val[c]
       IN  IF IsNaN(x) \/ x.s \in SeqToSet(before) THEN before ELSE Append(before, x.s)

Unique(f, c) == UniqueTexts(f, c, Len(f.rows))

\* The texts of S in ascending order.
RECURSIVE SortedTexts(_)
SortedTexts(S) ==
  IF S = {} THEN <<>>
  ELSE LET m == CHOOSE x \in S : \A y \in S \ {x} : StrLess(x, y)
       IN  <<m>> \o SortedTexts(S \ {m})

\* skill_grouping(df): the dict as the sequence of its items in insertion
\* order, which is groupby's order, the sorted keys.
skill_grouping(df) ==
  IF HasCol(df, "Primary_Skill")
  THEN LET keys == SortedTexts(SeqToSet(Unique(df, "Primary_Skill")))
       IN  [df |-> df, raised |-> FALSE,
            out |-> [j \in 1..Len(keys) |->
                      [key |-> keys[j],
                       records |-> Records(Project(
                          Mask(df, {i \in 1..Len(df.rows) :
                                      df.rows[i].val["Primary_Skill"] = Str(keys[j])}),
                          << "Personnel_ID", "Name", "Rank", "Performance_Rating",
                             "Readiness_Level", "Medical_Category" >>))]]]
  ELSE [df |-> df, raised |-> FALSE, out |-> <<>>]

---------------------------------------------------------------------------
(* utils/logic.py: select_best_team.                                       *)

\* pd.to_numeric(x, errors="coerce"): a number stays, a text of digits is
\* parsed, any other text becomes NaN.
ToNumeric(c) ==
  IF c.k = "str" /\ c.s # <<>> /\ SeqToSet(c.s) \subseteq Digits THEN Num(ToInt(c.s))
  ELSE IF c.k = "num" THEN c ELSE NaN

\* Lines 79-83 for one column.
NumericCast(d, col) ==
  IF HasCol(d, col)
  THEN SetCol(d, col, [i \in 1..Len(d.rows) |-> FillNa(ToNumeric(d.rows[i].val[col]), Num(0))])
  ELSE SetCol(d, col, [i \in 1..Len(d.rows) |-> Num(0)])

\* Lines 86-91 for one score column.
ScoreIfAbsent(d, score, src, m) ==
  IF ~HasCol(d, score) /\ HasCol(d, src) THEN SetCol(d, score, MappedCol(d, src, m, 0)) ELSE d

\* Series.max() of a numeric column without missing values; 0 stands for
\* the NaN of an empty column, which no row then uses.
ColMax(d, col) ==
  IF d.rows = <<>> THEN 0 ELSE SetMax({d.rows[i].val[col].n : i \in 1..Len(d.rows)})

\* Line 94: max(Missions_Completed.max(), 1).
DenomMissions(d) == SetMax({ColMax(d, "Missions_Completed"), 1})

\* Line 95: 5 when no rating exceeds 5, else the largest rating.
DenomPerf(d) ==
  LET Denom(top) == IF top <= 5 THEN 5 ELSE SetMax({top, 1})
  IN  Denom(ColMax(d, "Performance_Rating"))

\* Lines 100-107 for row v, as the exact integer
\* Overall * 1000 * DenomPerf * DenomMissions: within one table the order
\* and the ties of these integers are those of the exact Overall scores.
OverallOf(v, pden, mden) ==
  (2500 * v["Readiness_Score"].n + 1500 * v["Leadership_Score"].n
     + 10 * v["Medical_Score"].n + 6 * v["Training_Score"].n) * pden * mden
  + 1200 * v["Performance_Rating"].n * mden
  + 400 * v["Missions_Completed"].n * pden

WithOverall(d) ==
  SetCol(d, "Overall",
         [i \in 1..Len(d.rows) |-> Num(OverallOf(d.rows[i].val, DenomPerf(d), DenomMissions(d)))])

\* Lines 78-107: the enriched copy d with its numeric casts and Overall.
Scored(d) ==
  LET c1 == NumericCast(d, "Performance_Rating")
      c2 == NumericCast(c1, "Training_Score")
      c3 == NumericCast(c2, "Missions_Completed")
      s1 == ScoreIfAbsent(c3, "Medical_Score", "Medical_Category", MEDICAL_SCORE)
      s2 == ScoreIfAbsent(s1, "Readiness_Score", "Readiness_Level", READINESS_SCORE)
      s3 == ScoreIfAbsent(s2, "Leadership_Score", "Leadership_Potential", LEADERSHIP_MAP)
  IN  WithOverall(s3)

\* The sort key with ascending=False left out.
OverallAsc == << [col |-> "Overall", asc |-> TRUE] >>

OverallDesc == << [col |-> "Overall", asc |-> FALSE] >>

\* Line 111 with the filter left out.
RestrictRows_nofilter(d, required_roles, restrict_to_roles) == d

\* Lines 110-111: d[d["Primary_Skill"].isin(required_roles)] when restricting.
RestrictRows(d, required_roles, restrict_to_roles) ==
  IF restrict_to_roles /\ required_roles # <<>>
  THEN Mask(d, {i \in 1..Len(d.rows) :
                  ~IsNaN(d.rows[i].val["Primary_Skill"])
                  /\ d.rows[i].val["Primary_Skill"].s \in SeqToSet(required_roles)})
  ELSE d

\* The rows of role: d[d["Primary_Skill"] == role].
RoleRows(d, role) ==
  Mask(d, {i \in 1..Len(d.rows) : d.rows[i].val["Primary_Skill"] = Str(role)})

\* Line 119 taking the role's last row by Overall instead of its first.
BestOfRole_worst(d, role) ==
  LET q == SortValues(RoleRows(d, role), OverallDesc).rows IN q[Len(q)].idx

\* Line 119: sub.sort_values("Overall", ascending=False).index[0]
BestOfRole(d, role) == SortValues(RoleRows(d, role), OverallDesc).rows[1].idx

\* Lines 114-119: one index label per required role that has rows, in the
\* order of required_roles; a role named twice is picked twice.
RECURSIVE PickedIdx(_, _, _)
PickedIdx(d, required_roles, restrict_to_roles) ==
  IF required_roles = <<>> \/ restrict_to_roles THEN <<>>
  ELSE LET n == Len(required_roles)
           before == PickedIdx(d, SubSeq(required_roles, 1, n - 1), restrict_to_roles)
       IN  IF RoleRows(d, required_roles[n]).rows # <<>>
           THEN Append(before, BestOfRole(d, required_roles[n]))
           ELSE before

\* d.loc[labels]: the rows with these index labels, in the order of the
\* labels, a label that occurs twice giving its row twice.
Loc(d, labels) ==
  [j \in 1..Len(labels) |->
     d.rows[CHOOSE i \in 1..Len(d.rows) : d.rows[i].idx = labels[j]]]

\* d.drop(index=labels)
Drop(d, labels) ==
  Mask(d, {i \in 1..Len(d.rows) : d.rows[i].idx \notin SeqToSet(labels)})

Max0(n) == IF n > 0 THEN n ELSE 0

TeamCols ==
  << "Personnel_ID", "Name", "Rank", "Primary_Skill", "Readiness_Level",
     "Medical_Category", "Leadership_Potential", "Performance_Rating", "Overall" >>

\* select_best_team(df, headcount, required_roles, restrict_to_roles);
\* required_roles None is the empty list.
select_best_team(df, headcount, required_roles, restrict_to_roles) ==
  LET Cols(team) == Project(team, Present(team, TeamCols))
      Team(d, picked_idx, rest) ==
        HeadN(SortValues([d EXCEPT !.rows = Loc(d, picked_idx) \o rest.rows], OverallDesc),
              headcount)
      Rest(d, picked_idx, remaining) ==
        HeadN(SortValues(Drop(d, picked_idx), OverallDesc), Max0(remaining))
      Fill(d, picked_idx) ==
        Cols(Team(d, picked_idx, Rest(d, picked_idx, headcount - Len(picked_idx))))
      Pick(d) == Fill(d, PickedIdx(d, required_roles, restrict_to_roles))
      Ret(a) ==
        [df |-> a.df, raised |-> FALSE,
         out |-> Pick(RestrictRows(Scored(a.out), required_roles, restrict_to_roles))]
  IN  Ret(add_derived_columns(df))

---------------------------------------------------------------------------
(* utils/logic.py: the scenario analyzers of what_if_simulation.           *)

\* Python's any(word in text for word in words).
AnyIn(text, words) == \E w \in words : Contains(text, w)

\* str(n) for n >= 0.
RECURSIVE ToStr(_)
ToStr(n) ==
  IF n < 10 THEN <<Alphabet[Ord["0"] + n]>>
  ELSE ToStr(n \div 10) \o <<Alphabet[Ord["0"] + (n % 10)]>>

\* Series.isin(values) on a cell.
IsIn(c, values) == c.k = "str" /\ c.s \in values

\* Series.str.contains(pat, case=False, na=False) on a cell.
CellIContains(c, pat) == c.k = "str" /\ IContains(c.s, pat)

\* Series.value_counts().to_dict(): the count of every value that occurs.
ValueCounts(f, col) ==
  { <<x, Cardinality({i \in 1..Len(f.rows) : f.rows[i].val[col] = x})>> :
      x \in {f.rows[i].val[col] : i \in 1..Len(f.rows)} \ {NaN} }

\* The numbers of a column that are not missing, as a bag of (position, n).
Present_n(f, col) == {i \in 1..Len(f.rows) : ~IsNaN(f.rows[i].val[col])}

RECURSIVE SumAt(_, _, _)
SumAt(f, col, S) ==
  IF S = {} THEN 0
  ELSE LET i == CHOOSE x \in S : TRUE IN f.rows[i].val[col].n + SumAt(f, col, S \ {i})

\* Series.mean() as the fraction sum / n over the values not missing.
Mean(f, col) == [sum |-> SumAt(f, col, Present_n(f, col)), n |-> Cardinality(Present_n(f, col))]

OfficerRanks == { <<"O", "f", "f", "i", "c", "e", "r">>, <<"C", "a", "p", "t", "a", "i", "n">>, <<"M", "a", "j", "o", "r">>, <<"C", "o", "l", "o", "n", "e", "l">> }

\* Line 227 with > in place of >=.
SeniorRow_strict(v) == ~IsNaN(v["Years_of_Service"]) /\ v["Years_of_Service"].n > 15

\* Line 227: Years_of_Service >= 15.
SeniorRow(v) == ~IsNaN(v["Years_of_Service"]) /\ v["Years_of_Service"].n >= 15

\* Lines 225-233: the criteria the text mentions, applied one after another.
RetirementCandidates(d, text_low) ==
  Mask(d, {i \in 1..Len(d.rows) :
     LET v == d.rows[i].val
     IN  /\ Contains(text_low, <<"s", "e", "n", "i", "o", "r">>) => SeniorRow(v)
         /\ Contains(text_low, <<"o", "f", "f", "i", "c", "e", "r">>) =>
              \E r \in OfficerRanks : CellIContains(v["Rank"], r)
         /\ Contains(text_low, <<"p", "i", "l", "o", "t">>) => CellIContains(v["Primary_Skill"], <<"P", "i", "l", "o", "t">>)
         /\ Contains(text_low, <<"e", "n", "g", "i", "n", "e", "e", "r">>) => CellIContains(v["Primary_Skill"], <<"E", "n", "g", "i", "n", "e", "e", "r">>)})

\* _analyze_retirement_scenario(df, text_low, client); the criteria list of
\* lines 214-222 is built and never read.
analyze_retirement_scenario(df, text_low) ==
  LET a == add_derived_columns(df)
      rc == RetirementCandidates(a.out, text_low)
      total_affected == Len(rc.rows)
  IN  [df |-> a.df, raised |-> FALSE,
       out |-> [action |-> <<"r", "e", "t", "i", "r", "e", "m", "e", "n", "t", "_", "i", "m", "p", "a", "c", "t">>,
                analysis |-> [total_affected |-> total_affected,
                              avg_experience |-> IF total_affected > 0
                                                 THEN Mean(rc, "Years_of_Service")
                                                 ELSE [sum |-> 0, n |-> 1],
                              performance_dist |-> IF total_affected > 0
                                                   THEN ValueCounts(rc, "Performance_Rating")
                                                   ELSE {},
                              leadership_loss |-> Cardinality({i \in 1..Len(rc.rows) :
                                 IsIn(rc.rows[i].val["Leadership_Potential"], {T_High, T_Yes})})],
                recommendations |-> << "Develop succession planning for critical roles",
                                       "Accelerate leadership development programs",
                                       "Consider phased retirement to retain knowledge",
                                       "Implement knowledge transfer protocols" >>,
                data |-> Records(Project(rc,
                   << "Personnel_ID", "Name", "Rank", "Primary_Skill", "Years_of_Service",
                      "Performance_Rating", "Leadership_Potential" >>))]]

\* Lines 274-283: the loop over the skills of the table; <<>> is None.
RECURSIVE RedeploySkills(_, _, _)
RedeploySkills(skills, n, text_low) ==
  IF n = 0 THEN [from_skill |-> <<>>, to_skill |-> <<>>]
  ELSE LET st == RedeploySkills(skills, n - 1, text_low)
           sk == Lower(skills[n])
       IN  IF ~Contains(text_low, sk) THEN st
           ELSE IF Contains(text_low, <<"f", "r", "o", "m">>) /\ Find(text_low, sk) < Find(text_low, <<"f", "r", "o", "m">>)
                THEN [st EXCEPT !.from_skill = skills[n]]
           ELSE IF Contains(text_low, <<"t", "o">>) /\ Find(text_low, sk) > Find(text_low, <<"t", "o">>)
                THEN [st EXCEPT !.to_skill = skills[n]]
           ELSE IF st.from_skill = <<>>
                THEN [st EXCEPT !.from_skill = skills[n]]
           ELSE [st EXCEPT !.to_skill = skills[n]]

\* Line 296 taking the rows that do contain the from-skill.
Remaining_kept(d, from_skill) ==
  Mask(d, {i \in 1..Len(d.rows) :
             CellIContains(d.rows[i].val["Primary_Skill"], from_skill)})

\* Line 296: the rows whose primary skill does not contain the from-skill.
Remaining(d, from_skill) ==
  Mask(d, {i \in 1..Len(d.rows) :
             ~CellIContains(d.rows[i].val["Primary_Skill"], from_skill)})

\* _analyze_redeployment_scenario(df, text_low, client)
analyze_redeployment_scenario(df, text_low) ==
  LET Skills(skills) == RedeploySkills(skills, Len(skills), text_low)
      Impact(a, d, from_skill, to_skill) ==
        LET
      rc == IF from_skill # <<>>
            THEN Mask(d, {i \in 1..Len(d.rows) :
                            CellIContains(d.rows[i].val["Primary_Skill"], from_skill)})
            ELSE Mask(d, {i \in 1..Len(d.rows) :
                            IsIn(d.rows[i].val["Performance_Rating"], {T_BelowAverage, T_Average})})
      remaining == Remaining(d, from_skill)
      skill_gaps == IF from_skill # <<>>
                    THEN { <<from_skill, Cardinality({i \in 1..Len(remaining.rows) :
                              CellIContains(remaining.rows[i].val["Primary_Skill"], from_skill)})>> }
                    ELSE {}
        IN
      [df |-> a.df, raised |-> FALSE,
       out |-> [action |-> <<"r", "e", "d", "e", "p", "l", "o", "y", "m", "e", "n", "t", "_", "i", "m", "p", "a", "c", "t">>,
                analysis |-> [total_affected |-> Len(rc.rows),
                              moving |-> IF from_skill # <<>> /\ to_skill # <<>>
                                         THEN <<from_skill, to_skill>> ELSE <<>>,
                              from_skill |-> from_skill,
                              to_skill |-> to_skill,
                              skill_gaps |-> skill_gaps],
                recommendations |-> << "Assess skill transferability and training needs",
                                       "Plan for knowledge retention in source roles",
                                       "Develop cross-training programs",
                                       "Monitor performance during transition period" >>,
                data |-> Records(Project(rc,
                   << "Personnel_ID", "Name", "Rank", "Primary_Skill",
                      "Performance_Rating", "Training_Score" >>))]]
      OnCopy(a, st) == Impact(a, a.out, st.from_skill, st.to_skill)
  IN  OnCopy(add_derived_columns(df), Skills(Unique(df, "Primary_Skill")))

\* Lines 326-331 with the BMI limits themselves counted as out of range.
MedicalIssue_inclusive(v) ==
  \/ IsIn(v["Medical_Category"], {T_C1, T_C2})
  \/ v["Medical_Score"].n < 70
  \/ (~IsNaN(v["BMI"]) /\ v["BMI"].n >= 300)
  \/ (~IsNaN(v["BMI"]) /\ v["BMI"].n <= 185)

\* Lines 326-331 for one pilot; BMI in tenths.
MedicalIssue(v) ==
  \/ IsIn(v["Medical_Category"], {T_C1, T_C2})
  \/ v["Medical_Score"].n < 70
  \/ (~IsNaN(v["BMI"]) /\ v["BMI"].n > 300)
  \/ (~IsNaN(v["BMI"]) /\ v["BMI"].n < 185)

\* Lines 339-343 for one pilot.
ReplacementCandidate(v) ==
  /\ IsIn(v["Medical_Category"], {T_A1, T_A2, T_B1})
  /\ IsIn(v["Performance_Rating"], {T_Excellent, T_Good})
  /\ ~IsNaN(v["Training_Score"]) /\ v["Training_Score"].n >= 80

\* Line 348: operational_impact is 100 * grounded / total, 0 without pilots.
ImpactLevel(grounded, total) ==
  IF total > 0 /\ 100 * grounded > 20 * total THEN "High"
  ELSE IF total > 0 /\ 100 * grounded > 10 * total THEN "Medium"
  ELSE "Low"

\* _analyze_grounding_scenario(df, text_low, client)
analyze_grounding_scenario(df, text_low) ==
  LET Pilots(d) ==
        Mask(d, {i \in 1..Len(d.rows) :
                   CellIContains(d.rows[i].val["Primary_Skill"], <<"P", "i", "l", "o", "t">>)})
      Impact(a, pilots) ==
        LET medical_issues ==
              Mask(pilots, {i \in 1..Len(pilots.rows) : MedicalIssue(pilots.rows[i].val)})
            replacement_candidates ==
              Mask(pilots, {i \in 1..Len(pilots.rows) : ReplacementCandidate(pilots.rows[i].val)})
            total_pilots == Len(pilots.rows)
            grounded_pilots == Len(medical_issues.rows)
        IN
      [df |-> a.df, raised |-> FALSE,
       out |-> [action |-> <<"g", "r", "o", "u", "n", "d", "i", "n", "g", "_", "i", "m", "p", "a", "c", "t">>,
                analysis |-> [grounded_pilots |-> grounded_pilots,
                              operational_impact |-> IF total_pilots > 0
                                 THEN [num |-> 100 * grounded_pilots, den |-> total_pilots]
                                 ELSE [num |-> 0, den |-> 1],
                              replacements |-> Records(Project(replacement_candidates,
                                                               << "Personnel_ID" >>)),
                              impact |-> ImpactLevel(grounded_pilots, total_pilots)],
                recommendations |-> << "Implement medical monitoring programs",
                                       "Develop pilot fitness maintenance protocols",
                                       "Create backup pilot rotation system",
                                       "Consider accelerated pilot training programs" >>,
                data |-> Records(Project(medical_issues,
                   << "Personnel_ID", "Name", "Rank", "Medical_Category", "Medical_Score",
                      "BMI", "Performance_Rating" >>))]]
      OnCopy(a) == Impact(a, Pilots(a.out))
  IN  OnCopy(add_derived_columns(df))

\* _analyze_promotion_scenario(df, text_low, client)
analyze_promotion_scenario(df, text_low) ==
  LET a == add_derived_columns(df)
      d == a.out
      pc0 == Mask(d, {i \in 1..Len(d.rows) :
                 LET v == d.rows[i].val
                 IN  /\ IsIn(v["Leadership_Potential"], {T_High, T_Yes})
                     /\ IsIn(v["Performance_Rating"], {T_Excellent, T_Good})
                     /\ ~IsNaN(v["Years_of_Service"]) /\ v["Years_of_Service"].n >= 5})
      promotion_candidates ==
        SortValues(pc0, << [col |-> "Leadership_Score", asc |-> FALSE],
                           [col |-> "Performance_Rating", asc |-> FALSE] >>)
      total_candidates == Len(promotion_candidates.rows)
  IN  [df |-> a.df, raised |-> FALSE,
       out |-> [action |-> <<"p", "r", "o", "m", "o", "t", "i", "o", "n", "_", "i", "m", "p", "a", "c", "t">>,
                analysis |-> [total_candidates |-> total_candidates,
                              skill_distribution |-> ValueCounts(promotion_candidates, "Primary_Skill"),
                              pipeline |-> IF total_candidates > 20 THEN "Strong"
                                           ELSE IF total_candidates > 10 THEN "Moderate"
                                           ELSE "Weak"],
                recommendations |-> << "Implement structured promotion criteria",
                                       "Develop leadership development programs",
                                       "Create mentorship opportunities",
                                       "Plan for role transitions and knowledge transfer" >>,
                data |-> Records(Project(promotion_candidates,
                   << "Personnel_ID", "Name", "Rank", "Primary_Skill", "Leadership_Potential",
                      "Performance_Rating", "Years_of_Service" >>))]]

\* _analyze_budget_scenario(df, text_low, client); a cost total is the
\* fraction mean * multiplier * total_personnel.
analyze_budget_scenario(df, text_low) ==
  LET a == add_derived_columns(df)
      d == a.out
      total_personnel == Len(d.rows)
      tm == Mean(d, "Training_Score")
      mm == Mean(d, "Medical_Score")
      high_cost_personnel == Mask(d, {i \in 1..Len(d.rows) :
                 LET v == d.rows[i].val
                 IN  \/ (~IsNaN(v["Training_Score"]) /\ v["Training_Score"].n > 80)
                     \/ v["Medical_Score"].n < 70
                     \/ IsIn(v["Performance_Rating"], {T_BelowAverage, T_Average})})
  IN  [df |-> a.df, raised |-> FALSE,
       out |-> [action |-> <<"b", "u", "d", "g", "e", "t", "_", "i", "m", "p", "a", "c", "t">>,
                analysis |-> [total_personnel |-> total_personnel,
                              training_costs |-> [num |-> tm.sum * 100 * total_personnel, den |-> tm.n],
                              medical_costs |-> [num |-> mm.sum * 50 * total_personnel, den |-> mm.n],
                              high_cost |-> Len(high_cost_personnel.rows)],
                recommendations |-> << "Implement cost optimization strategies",
                                       "Focus training investments on high-potential personnel",
                                       "Develop preventive medical programs",
                                       "Consider performance-based resource allocation" >>,
                data |-> Records(Project(high_cost_personnel,
                   << "Personnel_ID", "Name", "Rank", "Primary_Skill", "Training_Score",
                      "Medical_Score", "Performance_Rating" >>))]]

---------------------------------------------------------------------------
(* utils/logic.py: what_if_simulation.                                     *)

RetirementWords == { <<"r", "e", "t", "i", "r", "e">>, <<"r", "e", "t", "i", "r", "i", "n", "g">>, <<"r", "e", "t", "i", "r", "e", "m", "e", "n", "t">> }

RedeploymentWords == { <<"r", "e", "d", "e", "p", "l", "o", "y">>, <<"r", "e", "d", "e", "p", "l", "o", "y", "m", "e", "n", "t">>, <<"t", "r", "a", "n", "s", "f", "e", "r">>, <<"m", "o", "v", "e">> }

GroundingWords == { <<"g", "r", "o", "u", "n", "d">>, <<"g", "r", "o", "u", "n", "d", "i", "n", "g">>, <<"m", "e", "d", "i", "c", "a", "l">>, <<"u", "n", "f", "i", "t">>, <<"d", "i", "s", "q", "u", "a", "l", "i", "f", "y">> }

PromotionWords == { <<"p", "r", "o", "m", "o", "t", "e">>, <<"p", "r", "o", "m", "o", "t", "i", "o", "n">>, <<"a", "d", "v", "a", "n", "c", "e">> }

BudgetWords == { <<"b", "u", "d", "g", "e", "t">>, <<"c", "o", "s", "t">>, <<"f", "i", "n", "a", "n", "c", "i", "a", "l">>, <<"e", "x", "p", "e", "n", "s", "e">> }

ThresholdWords == { <<"t", "h", "r", "e", "s", "h", "o", "l", "d">>, <<"s", "c", "o", "r", "e">>, <<"<">>, <<"l", "e", "s", "s", " ", "t", "h", "a", "n">>, <<"b", "e", "l", "o", "w">> }

\* The conditions of the if/elif chain of lines 158-188, by branch number.
BranchMatches(b, text_low) ==
  CASE b = 1 -> AnyIn(text_low, RetirementWords)
    [] b = 2 -> AnyIn(text_low, RedeploymentWords)
    [] b = 3 -> AnyIn(text_low, GroundingWords)
    [] b = 4 -> AnyIn(text_low, PromotionWords)
    [] b = 5 -> AnyIn(text_low, BudgetWords)
    [] b = 6 -> Contains(text_low, <<"t", "r", "a", "i", "n", "i", "n", "g">>) /\ AnyIn(text_low, ThresholdWords)
    [] b = 7 -> Contains(text_low, <<"l", "e", "a", "d", "e", "r", "s">>) \/ Contains(text_low, <<"l", "e", "a", "d", "e", "r", "s", "h", "i", "p">>)
    [] b = 8 -> Contains(text_low, <<"t", "e", "a", "m">>) \/ Contains(text_low, <<"r", "e", "a", "d", "i", "n", "e", "s", "s">>)
    [] b = 9 -> TRUE

\* The chain with the promotion test ahead of the grounding test.
BranchOrder_swapped == << 1, 2, 4, 3, 5, 6, 7, 8, 9 >>

\* The order in which the chain tests the branches; 9 is the else.
BranchOrder == << 1, 2, 3, 4, 5, 6, 7, 8, 9 >>

\* The branch the chain takes: the first in BranchOrder whose test holds.
TakenBranch(text_low) ==
  BranchOrder[SetMin({i \in 1..Len(BranchOrder) : BranchMatches(BranchOrder[i], text_low)})]

\* Lines 169-173.
training_branch(df, text_low) ==
  LET Result(thresh, r) ==
        [df |-> r.df, raised |-> FALSE,
         out |-> [action |-> <<"s", "h", "o", "w", "_", "t", "r", "a", "i", "n", "i", "n", "g", "_", "b", "e", "l", "o", "w", "_">> \o ToStr(thresh),
                  analysis |-> [thresh |-> thresh],
                  recommendations |-> <<>>,
                  data |-> Records(r.out)]]
      Below(thresh) == Result(thresh, who_needs_training(df, thresh))
      Threshold(m) == IF m # <<>> THEN ToInt(m) ELSE 60
  IN  Below(Threshold(SearchDigits(text_low, 2, 2)))

\* Lines 176-186; <<>> is None.
leadership_branch(df, text_low) ==
  LET FirstHit(skills, hits) == IF hits = {} THEN <<>> ELSE skills[SetMin(hits)]
      Named(skills) ==
        FirstHit(skills, {i \in 1..Len(skills) : Contains(text_low, Lower(skills[i]))})
      Tab(skill, r) ==
        IF skill # <<>>
        THEN Mask(r.out, {i \in 1..Len(r.out.rows) :
                LET c == r.out.rows[i].val["Primary_Skill"]
                IN  c.k = "str" /\ Lower(c.s) = Lower(skill)})
        ELSE r.out
      Result(skill, r) ==
        [df |-> r.df, raised |-> FALSE,
         out |-> [action |-> <<"s", "h", "o", "w", "_", "l", "e", "a", "d", "e", "r", "s", "h", "i", "p">>,
                  analysis |-> [skill |-> skill],
                  recommendations |-> <<>>,
                  data |-> Records(HeadN(Tab(skill, r), 50))]]
  IN  Result(Named(Unique(df, "Primary_Skill")), leadership_list(df))

\* Lines 189-198.
team_branch(df, text_low) ==
  LET Result(n, roles, r) ==
        [df |-> r.df, raised |-> FALSE,
         out |-> [action |-> <<"s", "e", "l", "e", "c", "t", "_", "t", "e", "a", "m">>,
                  analysis |-> [n |-> n, roles |-> roles],
                  recommendations |-> <<>>,
                  data |-> Records(r.out)]]
      Team(n, roles) == Result(n, roles, select_best_team(df, n, roles, FALSE))
      Count(m) == IF m # <<>> THEN ToInt(m) ELSE 10
  IN  Team(Count(SearchDigits(text_low, 1, 3)),
           SelectSeq(Unique(df, "Primary_Skill"), LAMBDA sk : Contains(text_low, Lower(sk))))

\* Lines 201-204; who_is_going_to_leave may raise.
attrition_branch(df) ==
  LET Result(r) ==
        [df |-> r.df, raised |-> r.raised,
         out |-> IF r.raised THEN <<>>
                 ELSE [action |-> <<"s", "h", "o", "w", "_", "a", "t", "t", "r", "i", "t", "i", "o", "n">>,
                       analysis |-> "Personnel at risk of leaving the organization",
                       recommendations |-> <<>>,
                       data |-> Records(r.out)]]
  IN  Result(who_is_going_to_leave(df, 50))

\* The body of branch b of the chain.
BranchBody(b, df, text_low) ==
  CASE b = 1 -> analyze_retirement_scenario(df, text_low)
    [] b = 2 -> analyze_redeployment_scenario(df, text_low)
    [] b = 3 -> analyze_grounding_scenario(df, text_low)
    [] b = 4 -> analyze_promotion_scenario(df, text_low)
    [] b = 5 -> analyze_budget_scenario(df, text_low)
    [] b = 6 -> training_branch(df, text_low)
    [] b = 7 -> leadership_branch(df, text_low)
    [] b = 8 -> team_branch(df, text_low)
    [] b = 9 -> attrition_branch(df)

\* what_if_simulation(df, text): the result dict, with its "query".
what_if_simulation(df, text) ==
  LET Result(r) ==
        [df |-> r.df, raised |-> r.raised,
         out |-> IF r.raised THEN <<>>
                 ELSE [query |-> text, action |-> r.out.action, analysis |-> r.out.analysis,
                       recommendations |-> r.out.recommendations, data |-> r.out.data]]
      Chain(text_low) == Result(BranchBody(TakenBranch(text_low), df, text_low))
  IN  Chain(Lower(text))

---------------------------------------------------------------------------
(* The inputs of the calls.                                                *)

MaxHeadcount == 3

MaxRoles == 2

Headcounts == 1..MaxHeadcount

RoleNames == << T_Pilot, T_Engineer >>

RoleLists ==
  UNION {[1..k -> SeqToSet(RoleNames)] : k \in 0..MaxRoles}

Thresholds == {0, 45, 60, 91}

TopNs == {1, 2, 50}

\* The phrases query texts are made of.
Phrases ==
  << <<>>,
     <<"r", "e", "t", "i", "r", "e">>, <<"S", "e", "n", "i", "o", "r", " ", "P", "i", "l", "o", "t", "s">>, <<"s", "e", "n", "i", "o", "r">>, <<"o", "f", "f", "i", "c", "e", "r">>, <<"e", "n", "g", "i", "n", "e", "e", "r">>,
     <<"t", "r", "a", "n", "s", "f", "e", "r", " ", "f", "r", "o", "m", " ", "p", "i", "l", "o", "t", " ", "t", "o", " ", "e", "n", "g", "i", "n", "e", "e", "r">>, <<"g", "r", "o", "u", "n", "d">>, <<"p", "r", "o", "m", "o", "t", "e">>, <<"b", "u", "d", "g", "e", "t">>,
     <<"t", "r", "a", "i", "n", "i", "n", "g", " ", "b", "e", "l", "o", "w", " ", "4", "5">>, <<"l", "e", "a", "d", "e", "r", "s", "h", "i", "p">>, <<"t", "e", "a", "m", " ", "o", "f", " ", "2">>, <<"h", "e", "l", "l", "o">> >>

\* A query text: one phrase, or two with a space between them.
Queries ==
  {IF a = <<>> \/ b = <<>> THEN a \o b ELSE a \o << " " >> \o b :
     a \in SeqToSet(Phrases), b \in SeqToSet(Phrases)}

---------------------------------------------------------------------------
(* The requests: each view of app.py calls one operation of utils/logic.py *)
(* on the process-wide DF and the response ends the request.               *)

\* A call that returned r = [df, raised, out] (raised: it raised instead).
Call(name, a, r) ==
  /\ pc = "idle"
  /\ pc' = "done"
  /\ op' = name
  /\ args' = a
  /\ result' = [raised |-> r.raised, out |-> r.out]
  /\ DF' = r.df
  /\ UNCHANGED <<session, remember_token, last_auth>>

AddDerived ==
  LET r == add_derived_columns(DF)
  IN  Call("add_derived_columns", <<>>, [df |-> r.df, raised |-> FALSE, out |-> r.out])

AttritionView ==
  \E n \in TopNs :
    Call("who_is_going_to_leave", [top_n |-> n], who_is_going_to_leave(DF, n))

MedicalView == Call("medical_scores", <<>>, medical_scores(DF))

TrainingView ==
  \E t \in Thresholds :
    Call("who_needs_training", [thresh |-> t], who_needs_training(DF, t))

LeadershipView == Call("leadership_list", <<>>, leadership_list(DF))

SkillsView == Call("skill_grouping", <<>>, skill_grouping(DF))

SelectBestTeam ==
  \E h \in Headcounts, roles \in RoleLists, restrict \in BOOLEAN :
    Call("select_best_team",
         [headcount |-> h, required_roles |-> roles, restrict_to_roles |-> restrict],
         select_best_team(DF, h, roles, restrict))

\* The what-if page asked one of queries.
WhatIfOn(queries) ==
  \E q \in queries :
    Call("what_if_simulation", [text |-> q], what_if_simulation(DF, q))

WhatIf == WhatIfOn(Queries)

\* The view returns its response; nothing of the request is kept.
Respond ==
  /\ pc = "done"
  /\ pc' = "idle"
  /\ op' = "none"
  /\ args' = <<>>
  /\ result' = <<>>
  /\ UNCHANGED <<DF, session, remember_token, last_auth>>

\* A session without keys: what a client without a session cookie presents.
EmptySession ==
  [user_id |-> "None", fresh |-> "None", id |-> "None", remember |-> "None",
   permanent |-> FALSE, next |-> "None", flashes |-> FALSE]

InitOn(tables) ==
  /\ DF \in tables
  /\ pc = "idle"
  /\ op = "none"
  /\ args = <<>>
  /\ result = <<>>
  /\ session = EmptySession
  /\ remember_token = "None"
  /\ last_auth = "none"

Init == InitOn(Tables(MaxQueryRows, BOOLEAN, BOOLEAN))

Next ==
  \/ AddDerived
  \/ AttritionView
  \/ MedicalView
  \/ TrainingView
  \/ LeadershipView
  \/ SkillsView
  \/ SelectBestTeam
  \/ WhatIf
  \/ Respond

Spec == Init /\ [][Next]_vars

\* The report generators on tables of up to MaxRows rows.
InitReports == InitOn(Tables(MaxRows, BOOLEAN, BOOLEAN))

NextReports ==
  \/ AddDerived
  \/ AttritionView
  \/ MedicalView
  \/ TrainingView
  \/ LeadershipView
  \/ SkillsView
  \/ Respond

SpecReports == InitReports /\ [][NextReports]_vars

\* The team selector on tables of up to MaxTeamRows rows.
InitTeam == InitOn(Tables(MaxTeamRows, {TRUE}, BOOLEAN))

NextTeam == SelectBestTeam \/ Respond

SpecTeam == InitTeam /\ [][NextTeam]_vars

\* The what-if router on tables of up to MaxQueryRows rows.
InitWhatIf == InitOn(Tables(MaxQueryRows, BOOLEAN, BOOLEAN))

NextWhatIf == WhatIf \/ Respond

SpecWhatIf == InitWhatIf /\ [][NextWhatIf]_vars

\* Rows a table has at most in the skills specification.
MaxSkillRows == 3

\* The table read from the file of f with the Primary_Skill cells of the
\* rows at the positions of S left empty.
NoSkillAt(f, S) ==
  [f EXCEPT !.rows = [i \in 1..Len(f.rows) |->
     IF i \in S THEN [f.rows[i] EXCEPT !.val["Primary_Skill"] = NaN] ELSE f.rows[i]]]

\* The table read from the file of f without its column c.
WithoutCol(f, c) ==
  [cols |-> SelectSeq(f.cols, LAMBDA x : x # c),
   rows |-> [i \in 1..Len(f.rows) |->
               [idx |-> f.rows[i].idx,
                val |-> [x \in DOMAIN f.rows[i].val \ {c} |-> f.rows[i].val[x]]]]]

\* The tables of at most n rows some of whose rows have no primary skill,
\* and those tables without the Primary_Skill column.
SkillTables(n) ==
  {NoSkillAt(t, S) : <<t, S>> \in
     UNION {{<<t, S>> : S \in SUBSET (1..Len(t.rows))} : t \in Tables(n, {TRUE}, {FALSE})}}
  \cup {WithoutCol(t, "Primary_Skill") : t \in Tables(n, {TRUE}, {FALSE})}

\* Rows a table has at most in the redeployment specification.
MaxRedeployRows == 2

\* Queries the chain routes to the redeployment analyzer.
RedeployQueries ==
  { <<"t", "r", "a", "n", "s", "f", "e", "r", " ", "f", "r", "o", "m", " ", "p", "i", "l", "o", "t", " ", "t", "o", " ", "e", "n", "g", "i", "n", "e", "e", "r">>,
    <<"T", "r", "a", "n", "s", "f", "e", "r", " ", "f", "r", "o", "m", " ", "E", "n", "g", "i", "n", "e", "e", "r", " ", "t", "o", " ", "P", "i", "l", "o", "t">>,
    <<"m", "o", "v", "e", " ", "o", "p", "e", "r", "a", "t", "o", "r", "s", " ", "f", "r", "o", "m", " ", "p", "i", "l", "o", "t", " ", "t", "o", " ", "e", "n", "g", "i", "n", "e", "e", "r">>,
    <<"t", "r", "a", "n", "s", "f", "e", "r", " ", "f", "r", "o", "m", " ", "c", "o", "-", "p", "i", "l", "o", "t", " ", "t", "o", " ", "p", "i", "l", "o", "t">>,
    <<"r", "e", "d", "e", "p", "l", "o", "y", " ", "e", "n", "g", "i", "n", "e", "e", "r">>,
    <<"t", "r", "a", "n", "s", "f", "e", "r", " ", "s", "t", "a", "f", "f">> }

\* The what-if page asked about redeployment, on tables of up to
\* MaxRedeployRows rows.
InitRedeploy == InitOn(Tables(MaxRedeployRows, {TRUE}, BOOLEAN))

NextRedeploy == WhatIfOn(RedeployQueries) \/ Respond

SpecRedeploy == InitRedeploy /\ [][NextRedeploy]_vars

\* Rows a table has at most in the grounding specification.
MaxGroundRows == 5

\* Persons for the grounding analysis: pilots, a co-pilot and an engineer,
\* with the medical categories, BMI values (tenths) and training scores on
\* both sides of the limits of lines 326-343.
GroundPool ==
  << [skill |-> Str(T_Pilot), rank |-> Str(T_Major), yos |-> Num(22), perf |-> 5,
      train |-> Num(90), med |-> Str(T_A1), bmi |-> Num(300), lead |-> Str(T_High),
      ready |-> Str(T_High), attr |-> Str(T_Low), miss |-> Num(10)],
     [skill |-> Str(T_Pilot), rank |-> Str(T_Captain), yos |-> Num(12), perf |-> 4,
      train |-> Num(80), med |-> Str(T_A2), bmi |-> Num(310), lead |-> Str(T_Medium),
      ready |-> Str(T_High), attr |-> Str(T_Low), miss |-> Num(7)],
     [skill |-> Str(T_CoPilot), rank |-> Str(T_Captain), yos |-> Num(15), perf |-> 3,
      train |-> Num(60), med |-> Str(T_C2), bmi |-> Num(250), lead |-> Str(T_No),
      ready |-> Str(T_High), attr |-> Str(T_Low), miss |-> Num(10)],
     [skill |-> Str(T_Pilot), rank |-> Str(T_Cadet), yos |-> Num(2), perf |-> 4,
      train |-> Num(85), med |-> Str(T_X9), bmi |-> NaN, lead |-> Str(T_Low),
      ready |-> Str(T_Medium), attr |-> Str(T_Medium), miss |-> Num(1)],
     [skill |-> Str(T_Pilot), rank |-> Str(T_Officer), yos |-> Num(8), perf |-> 3,
      train |-> Num(79), med |-> Str(T_B1), bmi |-> Num(184), lead |-> Str(T_Low),
      ready |-> Str(T_Low), attr |-> Str(T_High), miss |-> Num(3)],
     [skill |-> Str(T_Engineer), rank |-> Str(T_Officer), yos |-> Num(16), perf |-> 2,
      train |-> Num(40), med |-> Str(T_C1), bmi |-> Num(320), lead |-> Str(T_Yes),
      ready |-> Str(T_Low), attr |-> Str(T_Medium), miss |-> Num(0)],
     [skill |-> Str(T_Pilot), rank |-> Str(T_Major), yos |-> Num(18), perf |-> 5,
      train |-> Num(95), med |-> Str(T_B2), bmi |-> Num(185), lead |-> Str(T_High),
      ready |-> Str(T_High), attr |-> Str(T_Low), miss |-> Num(9)] >>

\* The tables of at most n persons of GroundPool, in pool order.
GroundTables(n) ==
  {MkTableOf([i \in 1..Len(picks) |-> GroundPool[picks[i]]], t) :
     <<picks, t>> \in
       {picks \in UNION {[1..k -> 1..Len(GroundPool)] : k \in 0..n} :
          \A i \in 1..Len(picks), j \in 1..Len(picks) : i < j => picks[i] <= picks[j]}
       \X BOOLEAN}

\* Queries the chain routes to the grounding analyzer.
GroundingQueries ==
  { <<"g", "r", "o", "u", "n", "d">>, <<"M", "e", "d", "i", "c", "a", "l", " ", "r", "e", "v", "i", "e", "w">>, <<"u", "n", "f", "i", "t", " ", "t", "o", " ", "p", "r", "o", "m", "o", "t", "e">> }

\* The what-if page asked about grounding, on tables of up to MaxGroundRows
\* rows.
InitGrounding == InitOn(GroundTables(MaxGroundRows))

NextGrounding == WhatIfOn(GroundingQueries) \/ Respond

SpecGrounding == InitGrounding /\ [][NextGrounding]_vars

\* The skills page on tables of up to MaxSkillRows rows.
InitSkills == InitOn(SkillTables(MaxSkillRows))

NextSkills == SkillsView \/ Respond

SpecSkills == InitSkills /\ [][NextSkills]_vars

---------------------------------------------------------------------------
(* app.py: the login gate.  session is the Flask session the client holds  *)
(* in its session cookie, remember_token the Flask-Login remember cookie;  *)
(* "None" stands for an absent key or cookie.  last_auth records the last  *)
(* of: a login with matching credentials, a logout.                        *)

\* str.strip() on spaces.
RECURSIVE LStrip(_)
LStrip(s) == IF s # <<>> /\ Head(s) = " " THEN LStrip(Tail(s)) ELSE s

RECURSIVE RStrip(_)
RStrip(s) ==
  IF s # <<>> /\ s[Len(s)] = " " THEN RStrip(SubSeq(s, 1, Len(s) - 1)) ELSE s

Strip(s) == RStrip(LStrip(s))

\* bcrypt: the hash of a password (the salt left out).
generate_password_hash(password) == [bcrypt |-> password]

\* bcrypt.check_password_hash accepting every password.
check_password_hash_any(pw_hash, password) == TRUE

\* bcrypt.check_password_hash: the password hashes to pw_hash.
check_password_hash(pw_hash, password) == pw_hash = generate_password_hash(password)

\* db.users: the admin seeded at start-up.
Users ==
  { [id |-> "u1", username |-> <<"a", "d", "m", "i", "n">>, password_hash |-> generate_password_hash(<<"1", "2", "3">>)] }

\* db.users.find_one({'username': username}): the documents found.
find_one(username) == {doc \in Users : doc.username = username}

\* load_user(user_id): the id of the user loaded, "None" without one.
load_user(user_id) ==
  IF \E doc \in Users : doc.id = user_id THEN user_id ELSE "None"

\* The session identifier Flask-Login derives from the client's address
\* and user agent.
Ident == "ident"

\* The session holds no key.
IsEmpty(sess) == sess = EmptySession

\* current_user under session_protection = "strong": a session with keys
\* whose identifier is not the client's is marked not fresh when permanent
\* and is stripped of its login keys otherwise; the user comes from the
\* session, else from the remember cookie.
current_user(sess, token) ==
  LET FromCookie(s) ==
        IF token # "None" /\ s.remember # "clear"
        THEN [session |-> [s EXCEPT !.user_id = token, !.fresh = "False"],
              user |-> load_user(token)]
        ELSE [session |-> s, user |-> "None"]
      Load(s) ==
        IF s.user_id # "None" /\ load_user(s.user_id) # "None"
        THEN [session |-> s, user |-> load_user(s.user_id)]
        ELSE FromCookie(s)
  IN  IF ~IsEmpty(sess) /\ sess.id # Ident
      THEN IF sess.permanent
           THEN Load([sess EXCEPT !.fresh = "False"])
           ELSE [session |-> [sess EXCEPT !.user_id = "None", !.remember = "clear",
                                          !.id = "None", !.fresh = "None",
                                          !.next = "None"],
                 user |-> "None"]
      ELSE Load(sess)

\* login_user(user, remember=True)
login_user(sess, user_id) ==
  [sess EXCEPT !.user_id = user_id, !.fresh = "True", !.id = Ident, !.remember = "set"]

\* logout_user()
logout_user(sess, token) ==
  [sess EXCEPT !.user_id = "None", !.fresh = "None", !.id = "None",
               !.remember = IF token # "None" THEN "clear" ELSE @]

\* Flask-Login's after_request step: the remember cookie is set or cleared
\* as the session's "_remember" key asks, and the key is removed.
update_remember_cookie(sess, token) ==
  IF sess.remember = "None"
  THEN [session |-> sess, token |-> token]
  ELSE [session |-> [sess EXCEPT !.remember = "None"],
        token |-> IF sess.remember = "set" /\ sess.user_id # "None" THEN sess.user_id
                  ELSE IF sess.remember = "clear" THEN "None"
                  ELSE token]

\* url_for(endpoint) and request.url of the routes.
url_for(endpoint) ==
  CASE endpoint = "login" -> "/login"
    [] endpoint = "logout" -> "/logout"
    [] endpoint = "dashboard" -> "/dashboard"
    [] endpoint = "skills_view" -> "/skills"
    [] endpoint = "index" -> "/"
    [] endpoint = "static" -> "/static/style.css"
    [] OTHER -> "/no-such-page"

\* The values of the "next" parameter a login form is sent with.
NextParams == {"", " none ", "/skills", "http://evil.example/"}

\* _normalize_next()
normalize_next(n) ==
  IF n \in {"", " none ", "none", "null", "undefined"} THEN "None" ELSE n

\* _is_safe_next_url(target): the target is on the application's host.
is_safe_next_url(target) ==
  /\ target # "None"
  /\ target \in {"/", "/login", "/logout", "/dashboard", "/skills",
                 "/static/style.css", "/no-such-page"}

\* A response: its status, the target of a redirect, whether the route's
\* handler ran, and the page it rendered.
Response(sess, status, location, handler, body) ==
  [session |-> sess, status |-> status, location |-> location,
   handler |-> handler, body |-> body]

\* render_template: the page, whose template may show the flashed messages.
Render(sess, shown, page, body) ==
  Response([sess EXCEPT !.flashes = IF shown THEN FALSE ELSE @], 200, "None", TRUE,
           [page |-> page, content |-> body])

\* redirect(location) by a handler.
Redirect(sess, location) == Response(sess, 302, location, TRUE, "None")

\* login(), lines 175-206.
login(sess, user, method, form, shown) ==
  LET username == Strip(form.username)
      LoggedIn(s) ==
        IF (IF s.next # "None" THEN is_safe_next_url(s.next)
            ELSE is_safe_next_url(normalize_next(form.next)))
        THEN Redirect([s EXCEPT !.next = "None"],
                      IF s.next # "None" THEN s.next ELSE normalize_next(form.next))
        ELSE Redirect(s, url_for("dashboard"))
  IN  IF user # "None" THEN Redirect(sess, url_for("dashboard"))
      ELSE IF method # "POST" THEN Render(sess, shown, "login.html", "None")
      ELSE IF username = <<>> \/ form.password = <<>>
           THEN Render([sess EXCEPT !.flashes = TRUE], shown, "login.html", "None")
      ELSE IF \E doc \in find_one(username) :
                 check_password_hash(doc.password_hash, form.password)
           THEN LoggedIn([login_user(sess, (CHOOSE doc \in find_one(username) : TRUE).id)
                            EXCEPT !.permanent = TRUE])
           ELSE Render([sess EXCEPT !.flashes = TRUE], shown, "login.html", "None")

\* session.clear()
session_clear(sess) == EmptySession

\* logout(), lines 208-215.
logout(sess, token) ==
  Redirect([session_clear(logout_user(sess, token)) EXCEPT !.flashes = TRUE],
           url_for("login"))

\* The pages of the application a client asks for, besides login and
\* logout; "None" is a path without a route.
Pages == {"index", "dashboard", "skills_view", "static", "None"}

\* The pages behind @login_required.
Protected == {"dashboard", "skills_view"}

\* The view function of an endpoint; the views other than login, static
\* and index are behind @login_required, which flashes a message and
\* redirects to the login page.
View(endpoint, method, form, sess, user, token, shown) ==
  IF endpoint = "login" THEN login(sess, user, method, form, shown)
  ELSE IF endpoint = "static"
  THEN Response(sess, 200, "None", TRUE, [page |-> "static", content |-> "None"])
  ELSE IF endpoint = "None" THEN Response(sess, 404, "None", FALSE, "None")
  ELSE IF endpoint = "index" THEN Redirect(sess, url_for("login"))
  ELSE IF user = "None"
  THEN Response([sess EXCEPT !.flashes = TRUE], 302, url_for("login"), FALSE, "None")
  ELSE IF endpoint = "logout" THEN logout(sess, token)
  ELSE IF endpoint = "dashboard" THEN Render(sess, shown, "dashboard.html", "None")
  ELSE Render(sess, shown, "skills.html", skill_grouping(DF).out)

\* security_check(), lines 123-137, then session_timeout(), lines 143-151,
\* then the view.
dispatch(endpoint, method, form, sess, user, token, shown) ==
  IF endpoint \notin {"login", "static"} /\ user = "None"
  THEN Response([sess EXCEPT !.next = IF endpoint # "None" THEN url_for(endpoint) ELSE @],
                302, url_for("login"), FALSE, "None")
  ELSE View(endpoint, method, form,
            [sess EXCEPT !.permanent = IF user # "None" THEN TRUE ELSE @],
            user, token, shown)

\* request.form and request.values of a request.
Form(username, password, next) ==
  [username |-> username, password |-> password, next |-> next]

\* One request of the client, sent with the form fields username, password
\* and next, and the response it gets.
Request(endpoint, method, username, password, next) ==
  LET Commit(user, r, c) ==
        /\ pc' = "done"
        /\ op' = endpoint
        /\ args' = [method |-> method, form |-> Form(username, password, next)]
        /\ result' = [user |-> user, status |-> r.status, location |-> r.location,
                      handler |-> r.handler, body |-> r.body]
        /\ session' = c.session
        /\ remember_token' = c.token
        /\ last_auth' =
             IF /\ endpoint = "login" /\ method = "POST" /\ user = "None"
                /\ \E doc \in Users :
                      /\ doc.username = Strip(username)
                      /\ doc.password_hash = generate_password_hash(password)
             THEN "login"
             ELSE IF endpoint = "logout" /\ user # "None" THEN "logout"
             ELSE last_auth
        /\ UNCHANGED DF
      Answer(user, r) == Commit(user, r, update_remember_cookie(r.session, remember_token))
      Handle(l, shown) ==
        Answer(l.user, dispatch(endpoint, method, Form(username, password, next),
                                l.session, l.user, remember_token, shown))
  IN  /\ pc = "idle"
      /\ \E shown \in BOOLEAN : Handle(current_user(session, remember_token), shown)

Usernames == { <<"a", "d", "m", "i", "n">>, <<" ", "a", "d", "m", "i", "n", " ">>, <<"g", "u", "e", "s", "t">>, <<>> }

Passwords == { <<"1", "2", "3">>, <<"1", "2", "4">>, <<>> }

\* The login page asked for (GET, no form fields) or its form posted.
LoginPage ==
  \E method \in {"GET", "POST"}, u \in Usernames, p \in Passwords, n \in NextParams :
    IF method = "POST" THEN Request("login", method, u, p, n)
    ELSE Request("login", method, <<>>, <<>>, n)

Logout == Request("logout", "GET", <<>>, <<>>, "")

PageRequest == \E e \in Pages : Request(e, "GET", <<>>, <<>>, "")

\* PERMANENT_SESSION_LIFETIME: a permanent session ends after an hour
\* without requests; the remember cookie outlives it.
SessionExpires ==
  /\ pc = "idle"
  /\ session.permanent
  /\ session' = EmptySession
  /\ UNCHANGED <<DF, pc, op, args, result, remember_token, last_auth>>

\* Rows the table has at most in the login specification.
MaxLoginRows == 1

InitLogin == InitOn(SkillTables(MaxLoginRows))

NextLogin ==
  \/ LoginPage
  \/ Logout
  \/ PageRequest
  \/ SessionExpires
  \/ Respond

SpecLogin == InitLogin /\ [][NextLogin]_vars

---------------------------------------------------------------------------
(* Properties of select_best_team.                                         *)

Min2(a, b) == IF a < b THEN a ELSE b

TeamCall == pc = "done" /\ op = "select_best_team"

CoverageMode == TeamCall /\ args.required_roles # <<>> /\ ~args.restrict_to_roles

RestrictMode == TeamCall /\ args.required_roles # <<>> /\ args.restrict_to_roles

SkillOf(v) == v["Primary_Skill"]

\* The positions of the rows of DF whose primary skill is one of roles.
RowsOfRoles(roles) ==
  {i \in 1..Len(DF.rows) :
     \E j \in 1..Len(roles) : SkillOf(DF.rows[i].val) = Str(roles[j])}

\* The rows eligible for selection in the call of the current state.
AvailableRows ==
  IF RestrictMode THEN Cardinality(RowsOfRoles(args.required_roles)) ELSE Len(DF.rows)

\* The exact Overall scores (scaled) select_best_team gives the rows of DF,
\* by position.
OverallsOfDF ==
  LET sc == Scored(Derived(DF))
  IN  [i \in 1..Len(DF.rows) |-> sc.rows[i].val["Overall"].n]

\* The positions in DF of the persons of the returned team.
TeamPositions ==
  {i \in 1..Len(DF.rows) :
     \E t \in 1..Len(result.out.rows) :
        result.out.rows[t].val["Personnel_ID"] = DF.rows[i].val["Personnel_ID"]}

\* C1: select_best_team returns exactly min(headcount, availableRows) rows,
\* and so never more than headcount, whatever the required-role list
\* (empty, unknown roles, repeated names) and the restrict flag.
C1_TeamSize ==
  TeamCall =>
    /\ ~result.raised
    /\ Len(result.out.rows) <= args.headcount
    /\ Len(result.out.rows) = Min2(args.headcount, AvailableRows)

\* C2: in coverage mode with headcount at least the number of required
\* roles listed, every required role that has rows in the table has its
\* highest-Overall row in the team, and a role without rows raises nothing.
C2_RoleCoverage ==
  (CoverageMode /\ args.headcount >= Len(args.required_roles)) =>
    \A ov \in {OverallsOfDF}, team \in {TeamPositions} :
        /\ ~result.raised
        /\ \A j \in 1..Len(args.required_roles) :
             LET mine == RowsOfRoles(<<args.required_roles[j]>>)
             IN  mine # {} =>
                   \E i \in mine \cap team :
                      /\ \A k \in mine : ov[i] >= ov[k]
                      /\ \E t \in 1..Len(result.out.rows) :
                           /\ result.out.rows[t].val["Personnel_ID"] = DF.rows[i].val["Personnel_ID"]
                           /\ result.out.rows[t].val["Overall"] = Num(ov[i])

\* Coverage kept a required role's row in the team although a row left out
\* scores higher, in a call that also names a role the table lacks.
C2_Witness ==
  /\ CoverageMode
  /\ args.headcount >= Len(args.required_roles)
  /\ \E j \in 1..Len(args.required_roles) : RowsOfRoles(<<args.required_roles[j]>>) = {}
  /\ \E ov \in {OverallsOfDF}, team \in {TeamPositions} :
        \E i \in team, k \in (1..Len(DF.rows)) \ team : ov[k] > ov[i]

\* C3: restricted to a non-empty required-role list, every returned row has
\* a primary skill of that list.
C3_RestrictOnlyRoles ==
  RestrictMode =>
    \A t \in 1..Len(result.out.rows) :
       \E j \in 1..Len(args.required_roles) :
          SkillOf(result.out.rows[t].val) = Str(args.required_roles[j])

\* A restricted call that returns fewer rows than asked for although the
\* table holds enough rows, one of another skill scoring higher than a
\* returned row.
C3_Witness ==
  /\ RestrictMode
  /\ result.out.rows # <<>>
  /\ Len(result.out.rows) < args.headcount
  /\ Len(DF.rows) >= args.headcount
  /\ \E ov \in {OverallsOfDF}, team \in {TeamPositions} :
        \E i \in team, k \in (1..Len(DF.rows)) \ RowsOfRoles(args.required_roles) :
           ov[k] > ov[i]

---------------------------------------------------------------------------
(* Properties of what_if_simulation.                                       *)

WhatIfCall == pc = "done" /\ op = "what_if_simulation"

\* The routed branches in the order the specification lists them:
\* 1 retirement, 2 redeployment, 3 grounding, 4 promotion, 5 budget,
\* 6 training with threshold, 7 leadership, 8 team or readiness.
Routed == 1..8

\* Branch b is the earliest routed branch whose keywords the text matches.
EarliestMatch(b, text_low) ==
  BranchMatches(b, text_low) /\ \A e \in 1..(b - 1) : ~BranchMatches(e, text_low)

StartsWith(s, prefix) == Len(s) >= Len(prefix) /\ SubSeq(s, 1, Len(prefix)) = prefix

\* Whether action is the action tag of routed branch b.
IsTagOf(action, b) ==
  CASE b = 1 -> action = <<"r", "e", "t", "i", "r", "e", "m", "e", "n", "t", "_", "i", "m", "p", "a", "c", "t">>
    [] b = 2 -> action = <<"r", "e", "d", "e", "p", "l", "o", "y", "m", "e", "n", "t", "_", "i", "m", "p", "a", "c", "t">>
    [] b = 3 -> action = <<"g", "r", "o", "u", "n", "d", "i", "n", "g", "_", "i", "m", "p", "a", "c", "t">>
    [] b = 4 -> action = <<"p", "r", "o", "m", "o", "t", "i", "o", "n", "_", "i", "m", "p", "a", "c", "t">>
    [] b = 5 -> action = <<"b", "u", "d", "g", "e", "t", "_", "i", "m", "p", "a", "c", "t">>
    [] b = 6 -> StartsWith(action, <<"s", "h", "o", "w", "_", "t", "r", "a", "i", "n", "i", "n", "g", "_", "b", "e", "l", "o", "w", "_">>)
    [] b = 7 -> action = <<"s", "h", "o", "w", "_", "l", "e", "a", "d", "e", "r", "s", "h", "i", "p">>
    [] b = 8 -> action = <<"s", "e", "l", "e", "c", "t", "_", "t", "e", "a", "m">>

\* C4: the query is answered by the earliest routed branch it matches: the
\* action tag is that branch's, and analysis, recommendations and data are
\* what that branch alone computes, whatever later branches match too.
C4_FirstMatchWins ==
  WhatIfCall =>
    \A low \in {Lower(args.text)} :
      \A b \in Routed :
        EarliestMatch(b, low) =>
          /\ ~result.raised
          /\ IsTagOf(result.out.action, b)
          /\ \A r \in {BranchBody(b, DF, low).out} :
               /\ result.out.data = r.data
               /\ result.out.analysis = r.analysis
               /\ result.out.recommendations = r.recommendations

\* A query that matches two routed branches whose action tags differ.
C4_Witness ==
  /\ WhatIfCall
  /\ ~result.raised
  /\ \E low \in {Lower(args.text)} :
       \E b1 \in Routed, b2 \in Routed :
          /\ b1 < b2
          /\ EarliestMatch(b1, low)
          /\ BranchMatches(b2, low)
          /\ IsTagOf(result.out.action, b1)
          /\ ~IsTagOf(result.out.action, b2)

\* C5: a query that matches no routed keyword set raises no error and gets
\* action show_attrition with the attrition ranking (top 50) as data.
C5_DefaultNeverRaises ==
  (WhatIfCall /\ \A b \in Routed : ~BranchMatches(b, Lower(args.text))) =>
    /\ ~result.raised
    /\ result.out.action = <<"s", "h", "o", "w", "_", "a", "t", "t", "r", "i", "t", "i", "o", "n">>
    /\ result.out.data = Records(who_is_going_to_leave(DF, 50).out)

\* The positions of the rows of DF a retirement query about text_low keeps:
\* every criterion the text mentions must hold, the others do not filter.
RetirementKeep(text_low) ==
  {i \in 1..Len(DF.rows) :
     \A v \in {DF.rows[i].val} :
       /\ Contains(text_low, <<"s", "e", "n", "i", "o", "r">>) =>
            (v["Years_of_Service"].k = "num" /\ v["Years_of_Service"].n >= 15)
       /\ Contains(text_low, <<"o", "f", "f", "i", "c", "e", "r">>) =>
            (v["Rank"].k = "str" /\ \E w \in {<<"o", "f", "f", "i", "c", "e", "r">>, <<"c", "a", "p", "t", "a", "i", "n">>, <<"m", "a", "j", "o", "r">>, <<"c", "o", "l", "o", "n", "e", "l">>} :
                                       Contains(Lower(v["Rank"].s), w))
       /\ Contains(text_low, <<"p", "i", "l", "o", "t">>) =>
            (v["Primary_Skill"].k = "str" /\ Contains(Lower(v["Primary_Skill"].s), <<"p", "i", "l", "o", "t">>))
       /\ Contains(text_low, <<"e", "n", "g", "i", "n", "e", "e", "r">>) =>
            (v["Primary_Skill"].k = "str" /\ Contains(Lower(v["Primary_Skill"].s), <<"e", "n", "g", "i", "n", "e", "e", "r">>))}

RetirementCols ==
  << "Personnel_ID", "Name", "Rank", "Primary_Skill", "Years_of_Service",
     "Performance_Rating", "Leadership_Potential" >>

\* C6: a retirement query returns action retirement_impact and as data
\* exactly the rows of the table that satisfy every criterion the text
\* mentions (senior: 15 years of service or more; officer; pilot;
\* engineer), in table order.
C6_RetirementFilter ==
  WhatIfCall =>
    \A low \in {Lower(args.text)} :
      AnyIn(low, RetirementWords) =>
        /\ ~result.raised
        /\ result.out.action = <<"r", "e", "t", "i", "r", "e", "m", "e", "n", "t", "_", "i", "m", "p", "a", "c", "t">>
        /\ result.out.data = Records(Project(Mask(DF, RetirementKeep(low)), RetirementCols))

\* A retirement query naming senior and pilot on a table of which it keeps
\* some rows and drops others, one of the kept having exactly 15 years.
C6_Witness ==
  /\ WhatIfCall
  /\ \E low \in {Lower(args.text)} :
       /\ AnyIn(low, RetirementWords)
       /\ Contains(low, <<"s", "e", "n", "i", "o", "r">>)
       /\ Contains(low, <<"p", "i", "l", "o", "t">>)
       /\ ~Contains(low, <<"o", "f", "f", "i", "c", "e", "r">>)
       /\ ~Contains(low, <<"e", "n", "g", "i", "n", "e", "e", "r">>)
  /\ ~result.raised
  /\ result.out.data # <<>>
  /\ Len(result.out.data) < Len(DF.rows)
  /\ \E t \in 1..Len(result.out.data) : result.out.data[t]["Years_of_Service"] = Num(15)

---------------------------------------------------------------------------
(* Properties of the derived columns and of the report generators.         *)

TrainingCall == pc = "done" /\ op = "who_needs_training"

\* The positions in DF of the persons of the rows of frame f.
PositionsOf(f) ==
  {i \in 1..Len(DF.rows) :
     \E t \in 1..Len(f.rows) :
        f.rows[t].val["Personnel_ID"] = DF.rows[i].val["Personnel_ID"]}

\* The rows of f are in ascending order of Training_Score, the rows without
\* a score behind those with one.
AscendingTraining(f) ==
  \A t \in 1..Len(f.rows), u \in 1..Len(f.rows) :
     t < u =>
       \A a \in {f.rows[t].val["Training_Score"]}, b \in {f.rows[u].val["Training_Score"]} :
          /\ a.k = "nan" => b.k = "nan"
          /\ (a.k = "num" /\ b.k = "num") => a.n <= b.n

\* C7 as claimed: only rows with a training score strictly below the
\* threshold are returned, all of them, in ascending order, and no row
\* whose score is missing.
C7_OnlyScoresBelow ==
  TrainingCall =>
    /\ \A t \in 1..Len(result.out.rows) :
          /\ result.out.rows[t].val["Training_Score"].k = "num"
          /\ result.out.rows[t].val["Training_Score"].n < args.thresh
    /\ PositionsOf(result.out) =
         {i \in 1..Len(DF.rows) :
            /\ DF.rows[i].val["Training_Score"].k = "num"
            /\ DF.rows[i].val["Training_Score"].n < args.thresh}
    /\ AscendingTraining(result.out)

\* C7 as amended: the rows returned are exactly those whose training score
\* is strictly below the threshold, a missing score counting as 0, each
\* once, in ascending order of score with the rows missing a score last.
C7_TrainingGap ==
  TrainingCall =>
    /\ ~result.raised
    /\ PositionsOf(result.out) =
         {i \in 1..Len(DF.rows) :
            \/ DF.rows[i].val["Training_Score"].k = "num"
               /\ DF.rows[i].val["Training_Score"].n < args.thresh
            \/ DF.rows[i].val["Training_Score"].k = "nan" /\ 0 < args.thresh}
    /\ Len(result.out.rows) = Cardinality(PositionsOf(result.out))
    /\ AscendingTraining(result.out)

\* A report that lists a row without a score behind a row with one and
\* leaves a third row of the table out.
C7_Witness ==
  /\ TrainingCall
  /\ Len(result.out.rows) >= 2
  /\ Len(result.out.rows) < Len(DF.rows)
  /\ result.out.rows[1].val["Training_Score"].k = "num"
  /\ result.out.rows[Len(result.out.rows)].val["Training_Score"].k = "nan"

DerivedCall == pc = "done" /\ op = "add_derived_columns"

ScoreCols == << "Medical_Score", "Leadership_Score", "Readiness_Score", "Attrition_Score" >>

\* Cell c is one of the texts of keys.
Recognised(c, keys) == c.k = "str" /\ c.s \in keys

\* C8: add_derived_columns keeps every row and every original column in
\* order and appends four scores to each row: medical in
\* {100,95,88,82,75,68,60}, leadership, readiness and attrition in 1..3; a
\* missing or unrecognised category gives the default (60, 1, 1, 2) and a
\* table without Attrition_Risk gives attrition score 2 throughout.
C8_DerivedColumns ==
  DerivedCall =>
    /\ ~result.raised
    /\ result.out.cols = DF.cols \o ScoreCols
    /\ Len(result.out.rows) = Len(DF.rows)
    /\ \A i \in 1..Len(DF.rows) :
         \A old \in {DF.rows[i]}, new \in {result.out.rows[i]} :
           /\ new.idx = old.idx
           /\ DOMAIN new.val = SeqToSet(DF.cols) \cup SeqToSet(ScoreCols)
           /\ \A c \in SeqToSet(DF.cols) : new.val[c] = old.val[c]
           /\ new.val["Medical_Score"] \in {Num(x) : x \in {100, 95, 88, 82, 75, 68, 60}}
           /\ new.val["Leadership_Score"] \in {Num(x) : x \in 1..3}
           /\ new.val["Readiness_Score"] \in {Num(x) : x \in 1..3}
           /\ new.val["Attrition_Score"] \in {Num(x) : x \in 1..3}
           /\ ~Recognised(old.val["Medical_Category"], {T_A1, T_A2, T_B1, T_B2, T_C1, T_C2})
                => new.val["Medical_Score"] = Num(60)
           /\ ~Recognised(old.val["Leadership_Potential"], {T_High, T_Medium, T_Low, T_Yes, T_No})
                => new.val["Leadership_Score"] = Num(1)
           /\ ~Recognised(old.val["Readiness_Level"], {T_High, T_Medium, T_Low})
                => new.val["Readiness_Score"] = Num(1)
           /\ (~HasCol(DF, "Attrition_Risk")
               \/ ~Recognised(old.val["Attrition_Risk"], {T_High, T_Medium, T_Low}))
                => new.val["Attrition_Score"] = Num(2)

\* An enriched table with the Attrition_Risk column one of whose rows has an
\* unrecognised medical category and no leadership, readiness or attrition
\* value, beside a row whose categories are all recognised.
C8_Witness ==
  /\ DerivedCall
  /\ HasCol(DF, "Attrition_Risk")
  /\ \E i \in 1..Len(DF.rows) :
        /\ DF.rows[i].val["Medical_Category"] = Str(T_X9)
        /\ IsNaN(DF.rows[i].val["Leadership_Potential"])
        /\ IsNaN(DF.rows[i].val["Readiness_Level"])
        /\ IsNaN(DF.rows[i].val["Attrition_Risk"])
        /\ result.out.rows[i].val["Medical_Score"] = Num(60)
  /\ \E i \in 1..Len(DF.rows) :
        /\ result.out.rows[i].val["Medical_Score"] = Num(100)
        /\ result.out.rows[i].val["Leadership_Score"] = Num(3)
        /\ result.out.rows[i].val["Readiness_Score"] = Num(3)
        /\ result.out.rows[i].val["Attrition_Score"] = Num(1)

\* C9: no call changes the shared source table DF.
C9_SourceUnchanged == [][DF' = DF]_vars

\* A team was selected from a table with categorical ratings: the returned
\* rows carry Overall and the ratings cast to numbers, DF carries neither.
C9_Witness ==
  /\ TeamCall
  /\ result.out.rows # <<>>
  /\ HasCol(result.out, "Overall")
  /\ ~HasCol(DF, "Overall")
  /\ ~HasCol(DF, "Medical_Score")
  /\ \A t \in 1..Len(result.out.rows) : result.out.rows[t].val["Performance_Rating"].k = "num"
  /\ \A i \in 1..Len(DF.rows) : DF.rows[i].val["Performance_Rating"].k = "str"

AttritionCall == pc = "done" /\ op = "who_is_going_to_leave"

\* The number of the three heuristic conditions the row of values v meets;
\* a missing value meets none.
Conditions(v) ==
  B2I(v["Years_of_Service"].k = "num" /\ v["Years_of_Service"].n > 20)
  + B2I(v["Performance_Rating"].k = "num" /\ v["Performance_Rating"].n <= 2)
  + B2I(v["Training_Score"].k = "num" /\ v["Training_Score"].n < 50)

\* The risk of a tier as a number: High 3, Medium 2, Low 1.
TierRisk(tier) == IF tier = T_High THEN 3 ELSE IF tier = T_Medium THEN 2 ELSE 1

\* Row values v belong strictly before row values w: higher risk first,
\* then fewer years of service.
RiskBefore(v, w) ==
  \/ TierRisk(HeuristicTier(Conditions(v))) > TierRisk(HeuristicTier(Conditions(w)))
  \/ /\ TierRisk(HeuristicTier(Conditions(v))) = TierRisk(HeuristicTier(Conditions(w)))
     /\ v["Years_of_Service"].n < w["Years_of_Service"].n

\* C10: without an attrition-risk field every row gets the tier of its
\* number of matched conditions (2 or more High, 1 Medium, 0 Low) and the
\* rows returned are the first top_n in the order risk descending (High
\* before Medium before Low), then years of service ascending.
C10_HeuristicOrder ==
  (AttritionCall /\ ~HasCol(DF, "Attrition_Risk")
     /\ \A i \in 1..Len(DF.rows) : DF.rows[i].val["Performance_Rating"].k = "num") =>
    /\ ~result.raised
    /\ Len(result.out.rows) = Min2(args.top_n, Len(DF.rows))
    /\ \A t \in 1..Len(result.out.rows) :
         \E i \in 1..Len(DF.rows) :
            /\ DF.rows[i].val["Personnel_ID"] = result.out.rows[t].val["Personnel_ID"]
            /\ result.out.rows[t].val["Heuristic_Attrition"] =
                 Str(HeuristicTier(Conditions(DF.rows[i].val)))
    /\ \A t \in 1..Len(result.out.rows), u \in 1..Len(result.out.rows) :
         t < u =>
           \A i \in PositionsOf([rows |-> <<result.out.rows[t]>>]),
              k \in PositionsOf([rows |-> <<result.out.rows[u]>>]) :
                ~RiskBefore(DF.rows[k].val, DF.rows[i].val)
    /\ \A i \in PositionsOf(result.out), k \in (1..Len(DF.rows)) \ PositionsOf(result.out) :
         ~RiskBefore(DF.rows[k].val, DF.rows[i].val)

---------------------------------------------------------------------------
(* Properties of skill_grouping and leadership_list.                       *)

SkillsCall == pc = "done" /\ op = "skill_grouping"

\* The places <<j, t>> of the grouping at which the person of row v is listed.
PlacesOf(v) ==
  {<<j, t>> \in UNION {{<<j, t>> : t \in 1..Len(result.out[j].records)} :
                        j \in 1..Len(result.out)} :
     result.out[j].records[t]["Personnel_ID"] = v["Personnel_ID"]}

\* C12: skill_grouping partitions the table by primary skill: every row is
\* listed in exactly one group, the group of its primary skill, no group is
\* empty and no key occurs twice; without the skill column the mapping is
\* empty; nothing is raised.
C12_SkillPartition ==
  SkillsCall =>
    /\ ~result.raised
    /\ HasCol(DF, "Primary_Skill") =>
         /\ \A i \in 1..Len(DF.rows) :
              \A v \in {DF.rows[i].val}, places \in {PlacesOf(DF.rows[i].val)} :
                 /\ Cardinality(places) = 1
                 /\ \A p \in places : Str(result.out[p[1]].key) = v["Primary_Skill"]
         /\ \A j \in 1..Len(result.out) : result.out[j].records # <<>>
         /\ \A j \in 1..Len(result.out), k \in 1..Len(result.out) :
              result.out[j].key = result.out[k].key => j = k
    /\ ~HasCol(DF, "Primary_Skill") => result.out = <<>>

LeadershipCall == pc = "done" /\ op = "leadership_list"

\* How good a performance rating is, on either scale.
PerfRank(c) ==
  IF c.k = "num" THEN c.n
  ELSE IF c.s = T_Excellent THEN 4 ELSE IF c.s = T_Good THEN 3
  ELSE IF c.s = T_Average THEN 2 ELSE 1

\* The leadership score of the person of the row of values v.
LeadershipScoreOf(v) ==
  LET d == Derived(DF)
      i == CHOOSE k \in 1..Len(d.rows) : d.rows[k].val["Personnel_ID"] = v["Personnel_ID"]
  IN  d.rows[i].val["Leadership_Score"].n

\* C13: leadership_list returns every row of the table once, ordered by
\* leadership score descending and, among rows of equal leadership score,
\* by performance rating descending: a better rating (Excellent > Good >
\* Average > Below Average, or the higher number) never comes after a
\* worse one.
C13_LeadershipOrder ==
  LeadershipCall =>
    /\ ~result.raised
    /\ Len(result.out.rows) = Len(DF.rows)
    /\ PositionsOf(result.out) = 1..Len(DF.rows)
    /\ \A t \in 1..Len(result.out.rows), u \in 1..Len(result.out.rows) :
         t < u =>
           \A a \in {result.out.rows[t].val}, b \in {result.out.rows[u].val} :
              \A la \in {LeadershipScoreOf(a)}, lb \in {LeadershipScoreOf(b)} :
                 /\ la >= lb
                 /\ la = lb =>
                      PerfRank(a["Performance_Rating"]) >= PerfRank(b["Performance_Rating"])

---------------------------------------------------------------------------
(* Further properties of select_best_team.                                 *)

\* The positions in DF of the rows coverage reserves: per required role the
\* row of highest Overall, the earliest of them on a tie.
ReservedRows(ov) ==
  {i \in 1..Len(DF.rows) :
     \E j \in 1..Len(args.required_roles) :
        /\ SkillOf(DF.rows[i].val) = Str(args.required_roles[j])
        /\ \A k \in RowsOfRoles(<<args.required_roles[j]>>) :
              ov[i] > ov[k] \/ (ov[i] = ov[k] /\ i <= k)}

\* C14: the team is ordered by Overall non-increasing and carries the
\* Overall scores of its rows; without required roles every selected row
\* scores at least as high as every row not selected; in coverage mode
\* every selected row that is not reserved scores at least as high as
\* every row not selected.
C14_TeamOrderedByOverall ==
  TeamCall =>
    \A ov \in {OverallsOfDF}, team \in {TeamPositions} :
       /\ \A t \in 1..Len(result.out.rows), u \in 1..Len(result.out.rows) :
            t < u => result.out.rows[t].val["Overall"].n >= result.out.rows[u].val["Overall"].n
       /\ \A t \in 1..Len(result.out.rows) :
            \E i \in team :
               /\ DF.rows[i].val["Personnel_ID"] = result.out.rows[t].val["Personnel_ID"]
               /\ result.out.rows[t].val["Overall"] = Num(ov[i])
       /\ args.required_roles = <<>> =>
            \A i \in team, k \in (1..Len(DF.rows)) \ team : ov[i] >= ov[k]
       /\ CoverageMode =>
            \A i \in team \ ReservedRows(ov), k \in (1..Len(DF.rows)) \ team : ov[i] >= ov[k]

\* A coverage team of a reserved row and a fill row that scores higher,
\* with a third row of lower Overall than the fill row left out.
C14_Witness ==
  /\ CoverageMode
  /\ Len(result.out.rows) = 2
  /\ \E ov \in {OverallsOfDF}, team \in {TeamPositions} :
        /\ \E i \in team \ ReservedRows(ov), r \in team \cap ReservedRows(ov),
              k \in (1..Len(DF.rows)) \ team : ov[i] > ov[r] /\ ov[i] > ov[k]

---------------------------------------------------------------------------
(* Properties of the grounding analyzer.                                   *)

GroundingCall ==
  /\ WhatIfCall
  /\ ~result.raised
  /\ result.out.action = <<"g", "r", "o", "u", "n", "d", "i", "n", "g", "_", "i", "m", "p", "a", "c", "t">>

\* The primary skill is "Pilot".
IsPilot(v) == v["Primary_Skill"] = Str(T_Pilot)

\* The primary skill contains "Pilot": a pilot or a co-pilot.
IsPilotOrCoPilot(v) == v["Primary_Skill"] \in {Str(T_Pilot), Str(T_CoPilot)}

\* Medical category C1 or C2, or medical score below 70 (the score of C2
\* and of a missing or unknown category), or BMI below 18.5 or above 30.
Unfit(v) ==
  \/ v["Medical_Category"] \in {Str(T_C1), Str(T_C2)}
  \/ ~Recognised(v["Medical_Category"], {T_A1, T_A2, T_B1, T_B2, T_C1})
  \/ v["BMI"].k = "num" /\ (v["BMI"].n < 185 \/ v["BMI"].n > 300)

\* The grounding report of the current state is the one of the persons
\* that IsAPilot holds of.
GroundingReportOn(IsAPilot(_)) ==
  \A pilots \in {{i \in 1..Len(DF.rows) : IsAPilot(DF.rows[i].val)}} :
    \A grounded \in {{i \in pilots : Unfit(DF.rows[i].val)}} :
      /\ Len(result.out.data) = Cardinality(grounded)
      /\ {result.out.data[t]["Personnel_ID"] : t \in 1..Len(result.out.data)}
           = {DF.rows[i].val["Personnel_ID"] : i \in grounded}
      /\ result.out.analysis.grounded_pilots = Cardinality(grounded)
      /\ result.out.analysis.operational_impact =
           IF pilots = {} THEN [num |-> 0, den |-> 1]
           ELSE [num |-> 100 * Cardinality(grounded), den |-> Cardinality(pilots)]
      /\ result.out.analysis.impact =
           IF 100 * Cardinality(grounded) > 20 * Cardinality(pilots) THEN "High"
           ELSE IF 100 * Cardinality(grounded) > 10 * Cardinality(pilots) THEN "Medium"
           ELSE "Low"

\* C15 as claimed, a pilot being a person whose primary skill is "Pilot":
\* the data is exactly the pilots with category C1 or C2, medical score
\* < 70, BMI < 18.5 or BMI > 30; the percentage is grounded pilots over all
\* pilots, 0 without pilots; the impact is High above 20, Medium above 10,
\* else Low.
C15_OnlyPilots == GroundingCall => GroundingReportOn(IsPilot)

\* C15 as amended: the same report over the persons whose primary skill
\* contains "Pilot", co-pilots included.
C15_GroundingReport == GroundingCall => GroundingReportOn(IsPilotOrCoPilot)

\* One co-pilot grounded among five persons whose skill contains "Pilot",
\* two of them with a BMI on a limit: 20 percent, impact Medium.
C15_Witness ==
  /\ GroundingCall
  /\ result.out.analysis.impact = "Medium"
  /\ result.out.analysis.grounded_pilots = 1
  /\ \E i \in 1..Len(DF.rows) :
        /\ DF.rows[i].val["Primary_Skill"] = Str(T_CoPilot)
        /\ DF.rows[i].val["Personnel_ID"] = result.out.data[1]["Personnel_ID"]
  /\ \E i \in 1..Len(DF.rows), j \in 1..Len(DF.rows) :
        /\ IsPilot(DF.rows[i].val) /\ DF.rows[i].val["BMI"] = Num(300)
        /\ IsPilot(DF.rows[j].val) /\ DF.rows[j].val["BMI"] = Num(185)

\* C19: no person the grounding analyzer counts as a replacement candidate
\* is among the grounded persons it lists.
C19_GroundedNotReplacement ==
  GroundingCall =>
    {result.out.data[t]["Personnel_ID"] : t \in 1..Len(result.out.data)}
    \cap {result.out.analysis.replacements[t]["Personnel_ID"] :
            t \in 1..Len(result.out.analysis.replacements)} = {}

---------------------------------------------------------------------------
(* Properties of the redeployment analyzer.                                *)

RedeployCall ==
  /\ WhatIfCall
  /\ ~result.raised
  /\ result.out.action = <<"r", "e", "d", "e", "p", "l", "o", "y", "m", "e", "n", "t", "_", "i", "m", "p", "a", "c", "t">>

\* The primary skills of the table.
SkillsOfDF ==
  {DF.rows[i].val["Primary_Skill"].s :
     i \in {k \in 1..Len(DF.rows) : DF.rows[k].val["Primary_Skill"].k = "str"}}

\* The lowered query says "from a to b".
SaysFromTo(low, a, b) ==
  Contains(low, <<"f", "r", "o", "m", " ">> \o Lower(a) \o <<" ", "t", "o", " ">> \o Lower(b))

\* C16: when the query names skill A after "from" and skill B after "to"
\* (two distinct skills of the table, whatever else the text holds and
\* whatever the order of the skills in the table), the from-skill is A, the
\* to-skill is B and the data is exactly the rows whose primary skill
\* contains A; the fallback (no from-skill) is used only when the query
\* names no skill of the table.
C16_FromToSkills ==
  RedeployCall =>
    \A low \in {Lower(args.text)} :
      /\ \A a \in SkillsOfDF, b \in SkillsOfDF :
           (a # b /\ SaysFromTo(low, a, b)) =>
              /\ result.out.analysis.from_skill = a
              /\ result.out.analysis.to_skill = b
              /\ {result.out.data[t]["Personnel_ID"] : t \in 1..Len(result.out.data)}
                   = {DF.rows[i].val["Personnel_ID"] :
                        i \in {k \in 1..Len(DF.rows) :
                                 /\ DF.rows[k].val["Primary_Skill"].k = "str"
                                 /\ Contains(Lower(DF.rows[k].val["Primary_Skill"].s), Lower(a))}}
      /\ result.out.analysis.from_skill = <<>> =>
           \A a \in SkillsOfDF : ~Contains(low, Lower(a))

\* C20: whenever the redeployment analyzer identifies a from-skill, the
\* skill-gap mapping holds that skill alone with the count 0; when it
\* identifies none, the mapping is empty.
C20_SkillGapZero ==
  RedeployCall =>
    \A a \in {result.out.analysis} :
      IF a.from_skill = <<>>
      THEN a.skill_gaps = {}
      ELSE a.skill_gaps = {<<a.from_skill, 0>>}

\* A redeployment report with a from-skill that some rows of the table hold.
C20_Witness ==
  /\ RedeployCall
  /\ result.out.analysis.from_skill # <<>>
  /\ result.out.analysis.total_affected > 0
  /\ Len(DF.rows) > result.out.analysis.total_affected

---------------------------------------------------------------------------
(* Persons in the team.                                                    *)

\* C18: no person appears more than once in the team select_best_team
\* returns: the returned rows have pairwise distinct Personnel_IDs, for
\* every headcount and required-role list, a list naming a role twice
\* included.
C18_NoPersonTwice ==
  (TeamCall /\ ~result.raised) =>
    \A rows \in {result.out.rows} :
      \A s \in 1..Len(rows), t \in 1..Len(rows) :
        rows[s].val["Personnel_ID"] = rows[t].val["Personnel_ID"] => s = t

---------------------------------------------------------------------------
(* Properties of the login gate.                                           *)

\* A request of the login specification has been answered.
GateCall == pc = "done" /\ op \in Pages \cup {"login", "logout"}

===========================================================================
